---- MODULE Spec2Model ----
(***************************************************************************)
(* Model of nnsvs/model.py: the bounded residual log-F0 correction         *)
(* (predict_lf0_with_residual and the three residual-F0 predictors) and    *)
(* the multi-stream composer (MultistreamParametricModel).                 *)
(*                                                                         *)
(* Numbers.  Floating point values are modelled in fixed point with three  *)
(* decimal digits (One = 1000 stands for 1.0); products and quotients are  *)
(* rounded to nearest, as IEEE arithmetic does.  Indices, widths, cents    *)
(* and counts are plain integers.                                          *)
(*                                                                         *)
(* Tensors.  A tensor is a record [shape, data]: shape is the tuple of     *)
(* dimension sizes, data maps every 0-based index tuple to its value.      *)
(***************************************************************************)
EXTENDS Integers, Sequences, FiniteSets, TLC

VARIABLES
    pitch_model,   \* the residual-F0 predictor object (its attributes)
    x,             \* the caller's input batch (B, T, in_dim)
    net,           \* what the predictor's network produced in the last call
    ret,           \* what the last predictor call / direct call returned
    composer,      \* the MultistreamParametricModel object (its attributes)
    energy_model,  \* the energy predictor object
    timbre_model,  \* the timbre predictor object
    pc,            \* position inside MultistreamParametricModel.forward
    loc,           \* local variables of the running forward call
    result,        \* what the last compose call returned
    peer,          \* a second composer sharing pitch_model, and its call
    sar,           \* the shallow-AR predictor and its last call
    inf            \* the predictor whose inference was called, and the call

vars == <<pitch_model, x, net, ret, composer, energy_model, timbre_model,
          pc, loc, result, peer, sar, inf>>

-----------------------------------------------------------------------------
(* Bounds of the model *)

MaxB == 2            \* batch sizes 1..MaxB
MaxT == 2            \* frames 1..MaxT
MaxGaussians == 2    \* mixture components 1..MaxGaussians
MaxRaw == 2          \* raw residuals -MaxRaw..MaxRaw times RawStep
MaxSeed == 2         \* input patterns 0..MaxSeed
InDim == 2           \* width of the input batch
OutDim == 2          \* width of a stand-alone predictor's output

(* Fixed-point unit and constants of the arithmetic *)
One == 10 * 10 * 10
Ln2 == 693                      \* np.log(2) = 0.693147...
CentsPerOctave == 1200

(* Default arguments of the source, in fixed point *)
DefaultInLf0Min == 5394
DefaultInLf0Max == 6491
DefaultOutLf0Idx == 180
DefaultOutLf0Mean == 5953
DefaultOutLf0Scale == 234
DefaultResidualF0MaxCent == 600

-----------------------------------------------------------------------------
(* Scalar arithmetic *)

Abs(a) == IF a < 0 THEN -a ELSE a

\* a / b rounded to nearest, ties away from zero (b > 0)
RDiv(a, b) == IF a >= 0 THEN (2 * a + b) \div (2 * b)
              ELSE -((2 * (-a) + b) \div (2 * b))

FxMul(a, b) == RDiv(a * b, One)
FxDiv(a, b) == RDiv(a * One, b)

\* torch.tanh on the fixed-point grid: the values of tanh at multiples of
\* 0.25, linearly interpolated; from 4.25 on the result rounds to 1.0, as
\* a float tanh saturates to exactly 1.0 for large arguments.
TanhKnots == <<0, 245, 462, 635, 762, 848, 905, 941, 964, 978, 987, 992,
               995, 997, 998, 999, 999, 1000, 1000>>
TanhStep == One \div 4

TanhPos(a) ==
    IF a >= (Len(TanhKnots) - 1) * TanhStep THEN One
    ELSE LET i == a \div TanhStep
             lo == TanhKnots[i + 1]
             hi == TanhKnots[i + 2]
         IN  lo + RDiv((hi - lo) * (a - i * TanhStep), TanhStep)

Tanh(a) == IF a >= 0 THEN TanhPos(a) ELSE -TanhPos(-a)

-----------------------------------------------------------------------------
(* Tensors *)

RECURSIVE Idx(_)
Idx(shape) ==
    IF shape = <<>> THEN {<<>>}
    ELSE {<<i>> \o r : i \in 0..(shape[1] - 1), r \in Idx(Tail(shape))}

Front(s) == SubSeq(s, 1, Len(s) - 1)
Last(s) == s[Len(s)]

Tensor(shape, F(_)) == [shape |-> shape, data |-> [ix \in Idx(shape) |-> F(ix)]]

NoTensor == [shape |-> <<0>>, data |-> [ix \in {} |-> 0]]

\* t[..., i]: select index i of the last axis
SelectLast(t, i) ==
    [shape |-> Front(t.shape),
     data  |-> [ix \in Idx(Front(t.shape)) |-> t.data[ix \o <<i>>]]]

\* t.unsqueeze(-1)
Unsqueeze(t) ==
    [shape |-> t.shape \o <<1>>,
     data  |-> [ix \in Idx(t.shape \o <<1>>) |-> t.data[Front(ix)]]]

\* t.squeeze(-1): drops the last axis only when its size is 1
Squeeze(t) ==
    IF Last(t.shape) = 1
    THEN [shape |-> Front(t.shape),
          data  |-> [ix \in Idx(Front(t.shape)) |-> t.data[ix \o <<0>>]]]
    ELSE t

\* elementwise map
MapT(t, F(_)) == [shape |-> t.shape, data |-> [ix \in DOMAIN t.data |-> F(t.data[ix])]]

\* index of a broadcast operand: size-1 axes always read position 0
BIdx(ix, shape) == [d \in 1..Len(shape) |-> IF shape[d] = 1 THEN 0 ELSE ix[d]]

Max2(a, b) == IF a >= b THEN a ELSE b

\* a + b with broadcasting, for operands of equal rank
AddT(a, b) ==
    LET sh == [d \in 1..Len(a.shape) |-> Max2(a.shape[d], b.shape[d])]
    IN  [shape |-> sh,
         data  |-> [ix \in Idx(sh) |->
                      a.data[BIdx(ix, a.shape)] + b.data[BIdx(ix, b.shape)]]]

\* leading size-1 axes are dropped from the value of an indexed assignment
RECURSIVE StripOnes(_)
StripOnes(shape) ==
    IF shape # <<>> /\ shape[1] = 1 THEN StripOnes(Tail(shape)) ELSE shape

\* can a value of shape src be expanded to shape dst (aligned at the right)?
Expandable(src, dst) ==
    /\ Len(src) <= Len(dst)
    /\ \A d \in 1..Len(src) :
          LET s == src[d]
              t == dst[Len(dst) - Len(src) + d]
          IN  s = t \/ s = 1

\* index into the (stripped) value for position ix of the target
SrcIdx(ix, src) ==
    [d \in 1..Len(src) |->
        IF src[d] = 1 THEN 0 ELSE ix[Len(ix) - Len(src) + d]]

\* the value tensor viewed with its leading size-1 axes dropped
StripView(v) ==
    LET sh == StripOnes(v.shape)
        k  == Len(v.shape) - Len(sh)
    IN  [shape |-> sh,
         data  |-> [ix \in Idx(sh) |-> v.data[[d \in 1..k |-> 0] \o ix]]]

\* dst[..., i] = v succeeds iff v expands to the shape of dst[..., i]
CanSetLast(dst, v) == Expandable(StripOnes(v.shape), Front(dst.shape))

\* dst[..., i] = v   (in place; every other entry keeps its value)
SetLast(dst, i, v) ==
    LET sv == StripView(v)
    IN  [shape |-> dst.shape,
         data  |-> [ix \in DOMAIN dst.data |->
                      IF Last(ix) = i
                      THEN sv.data[SrcIdx(Front(ix), sv.shape)]
                      ELSE dst.data[ix]]]

-----------------------------------------------------------------------------
(* predict_lf0_with_residual *)

Denormalize_no_offset(v, in_lf0_min, in_lf0_max) ==
    FxMul(v, in_lf0_max - in_lf0_min)

\* lf0_score * (in_lf0_max - in_lf0_min) + in_lf0_min
Denormalize(v, in_lf0_min, in_lf0_max) ==
    FxMul(v, in_lf0_max - in_lf0_min) + in_lf0_min

\* residual_f0_max_cent * np.log(2) / 1200
MaxLf0Ratio(residual_f0_max_cent) ==
    RDiv(residual_f0_max_cent * Ln2, CentsPerOctave)

BoundResidual_unbounded(max_lf0_ratio, raw) == FxMul(max_lf0_ratio, raw)

\* max_lf0_ratio * torch.tanh(lf0_residual)
BoundResidual(max_lf0_ratio, raw) == FxMul(max_lf0_ratio, Tanh(raw))

\* (lf0_pred_denorm - out_lf0_mean) / out_lf0_scale
Normalize(v, out_lf0_mean, out_lf0_scale) == FxDiv(v - out_lf0_mean, out_lf0_scale)

\* both index expressions are in range (otherwise torch raises IndexError)
Lf0IndexOk(in_feats, out_feats, in_lf0_idx, out_lf0_idx) ==
    /\ in_lf0_idx < Last(in_feats.shape)
    /\ out_lf0_idx < Last(out_feats.shape)

RawResidual_wrong_branch(out_feats, out_lf0_idx) ==
    SelectLast(out_feats, out_lf0_idx)

\* the raw residual: (B, T, K) in the MDN case, (B, T, 1) otherwise
RawResidual(out_feats, out_lf0_idx) ==
    IF Len(out_feats.shape) = 4
    THEN SelectLast(out_feats, out_lf0_idx)
    ELSE Unsqueeze(SelectLast(out_feats, out_lf0_idx))

PredDenorm_dropped(lf0_score_denorm, lf0_residual) ==
    AddT(lf0_score_denorm, MapT(lf0_residual, LAMBDA v : 0))

\* lf0_pred_denorm = lf0_score_denorm + lf0_residual   (broadcast over K)
PredDenorm(lf0_score_denorm, lf0_residual) == AddT(lf0_score_denorm, lf0_residual)

predict_lf0_with_residual(in_feats, out_feats, in_lf0_idx, in_lf0_min, in_lf0_max, out_lf0_idx, out_lf0_mean, out_lf0_scale, residual_f0_max_cent) ==
    LET lf0_score        == Unsqueeze(SelectLast(in_feats, in_lf0_idx))
        lf0_score_denorm == MapT(lf0_score,
                                 LAMBDA v : Denormalize(v, in_lf0_min, in_lf0_max))
        max_lf0_ratio    == MaxLf0Ratio(residual_f0_max_cent)
        lf0_residual     == MapT(RawResidual(out_feats, out_lf0_idx),
                                 LAMBDA v : BoundResidual(max_lf0_ratio, v))
        lf0_pred_denorm  == PredDenorm(lf0_score_denorm, lf0_residual)
        lf0_pred         == MapT(lf0_pred_denorm,
                                 LAMBDA v : Normalize(v, out_lf0_mean, out_lf0_scale))
    IN  [lf0_pred |-> lf0_pred, lf0_residual |-> lf0_residual]

-----------------------------------------------------------------------------
(* Inputs: batches and network outputs are drawn from small pattern families *)

Shapes == {<<b, t>> : b \in 1..MaxB, t \in 1..MaxT}

\* number of a (b, t) or (b, t, k) position
PosNum(ix) == 64 * ix[1] + 8 * ix[2] + (IF Len(ix) >= 3 THEN ix[3] ELSE 0)

\* normalized score values 0.0, 0.5, 1.0
ScoreSeq == <<0, One \div 2, One>>

\* an input batch (B, T, InDim): neighbouring columns and frames differ
XGen(bt, seed) ==
    Tensor(bt \o <<InDim>>,
           LAMBDA ix : ScoreSeq[((seed + ix[1] + ix[2] + ix[3] + 1) % Len(ScoreSeq)) + 1])

RawStep == (7 * One) \div 10
RawHuge == 50 * One
NumRaw == 2 * MaxRaw + 3

\* raw residuals: a grid around 0 and one huge value of either sign
RawAt(j) ==
    LET k == j % NumRaw
    IN  IF k = 2 * MaxRaw + 1 THEN RawHuge
        ELSE IF k = 2 * MaxRaw + 2 THEN -RawHuge
        ELSE (k - MaxRaw) * RawStep

RawValues == {RawAt(j) : j \in 0..(NumRaw - 1)}

\* a value that identifies the tensor (base), the position and the column
TagOf(base, ix) == base + 1000 * PosNum(Front(ix)) + Last(ix)

\* a network output whose column rawcol carries raw residuals
NetGen(shape, base, rawcol, r) ==
    Tensor(shape,
           LAMBDA ix : IF Last(ix) = rawcol
                       THEN RawAt(r + PosNum(Front(ix)))
                       ELSE TagOf(base, ix))

MuBase == 1000 * One
LogPiBase == 2000 * One
LogSigmaBase == 3000 * One

\* what the network of a stand-alone predictor produces for a batch (B, T, .)
\* MDNLayer: log_pi (B, T, G), log_sigma and mu (B, T, G, out_dim)
NetOutputs(pm, bt, r) ==
    IF pm.use_mdn
    THEN [log_pi    |-> Tensor(bt \o <<pm.num_gaussians>>,
                               LAMBDA ix : TagOf(LogPiBase, ix)),
          log_sigma |-> Tensor(bt \o <<pm.num_gaussians, pm.out_dim>>,
                               LAMBDA ix : TagOf(LogSigmaBase, ix)),
          mu        |-> NetGen(bt \o <<pm.num_gaussians, pm.out_dim>>,
                               MuBase, pm.out_lf0_idx, r)]
    ELSE [log_pi    |-> NoTensor,
          log_sigma |-> NoTensor,
          mu        |-> NetGen(bt \o <<pm.out_dim>>, MuBase, pm.out_lf0_idx, r)]

\* the record of a call: the batch passed in and the network's raw output
\* and the predictor's attributes at the moment of the call
NetCall(pm, in_feats, n, cents) ==
    [x |-> in_feats, log_pi |-> n.log_pi, log_sigma |-> n.log_sigma,
     mu |-> n.mu, cents |-> cents, pm |-> pm]

-----------------------------------------------------------------------------
(* The residual-F0 predictors *)

Lf0Params == [in_lf0_idx : Nat, in_lf0_min : Int, in_lf0_max : Int,
              out_lf0_mean : Int, out_lf0_scale : Int]

ParamSets ==
    { [in_lf0_idx |-> 0, in_lf0_min |-> DefaultInLf0Min,
       in_lf0_max |-> DefaultInLf0Max, out_lf0_mean |-> DefaultOutLf0Mean,
       out_lf0_scale |-> DefaultOutLf0Scale],
      [in_lf0_idx |-> 1, in_lf0_min |-> 5 * One, in_lf0_max |-> 7 * One,
       out_lf0_mean |-> 6 * One, out_lf0_scale |-> One \div 2] }

OutIdxValues == {0, 1, DefaultOutLf0Idx}

Kinds == {"ResF0Conv1dResnet", "ResSkipF0FFConvLSTM", "ResF0VariancePredictor"}

\* __init__ of the three classes: the attributes the constructor stores.
\* out_dim is a constructor argument that sizes the last layer; none of the
\* classes stores it as an attribute, a subclass or wrapper may expose it
\* (has_out_dim).  ctor remembers the constructor's arguments.
NewPredictor(kind, out_dim, has_out_dim, use_mdn, num_gaussians, p, out_lf0_idx) ==
    [kind |-> kind, out_dim |-> out_dim, has_out_dim |-> has_out_dim,
     use_mdn |-> use_mdn, num_gaussians |-> num_gaussians,
     in_lf0_idx |-> p.in_lf0_idx, in_lf0_min |-> p.in_lf0_min,
     in_lf0_max |-> p.in_lf0_max, out_lf0_idx |-> out_lf0_idx,
     out_lf0_mean |-> p.out_lf0_mean, out_lf0_scale |-> p.out_lf0_scale,
     ctor |-> [in_lf0_idx |-> p.in_lf0_idx, in_lf0_min |-> p.in_lf0_min,
               in_lf0_max |-> p.in_lf0_max, out_lf0_idx |-> out_lf0_idx,
               out_lf0_mean |-> p.out_lf0_mean,
               out_lf0_scale |-> p.out_lf0_scale]]

\* the value a call hands back: status "ok" or the exception raised
Raised(e, n) ==
    [status |-> e, log_pi |-> n.log_pi, log_sigma |-> n.log_sigma,
     mu |-> n.mu, lf0_pred |-> NoTensor, lf0_residual |-> NoTensor,
     in_feats |-> n.x]

Inject_first_column(mu, out_lf0_idx, lf0_pred) == SetLast(mu, 0, Squeeze(lf0_pred))

\* mu[..., out_lf0_idx] = lf0_pred.squeeze(-1)
Inject(mu, out_lf0_idx, lf0_pred) == SetLast(mu, out_lf0_idx, Squeeze(lf0_pred))

CorrectAndInject_other_cent(pm, in_feats, n) ==
    IF ~Lf0IndexOk(in_feats, n.mu, pm.in_lf0_idx, pm.out_lf0_idx)
    THEN Raised("IndexError", n)
    ELSE LET c == predict_lf0_with_residual(
                      in_feats, n.mu, pm.in_lf0_idx, pm.in_lf0_min,
                      pm.in_lf0_max, pm.out_lf0_idx, pm.out_lf0_mean,
                      pm.out_lf0_scale, 2 * DefaultResidualF0MaxCent)
         IN  IF ~CanSetLast(n.mu, Squeeze(c.lf0_pred))
             THEN Raised("RuntimeError", n)
             ELSE [status |-> "ok", log_pi |-> n.log_pi,
                   log_sigma |-> n.log_sigma,
                   mu |-> Inject(n.mu, pm.out_lf0_idx, c.lf0_pred),
                   lf0_pred |-> c.lf0_pred,
                   lf0_residual |-> c.lf0_residual,
                   in_feats |-> in_feats]

\* the part common to the three forward methods: correct, then inject.
\* n is the network's raw output for in_feats.
CorrectAndInject(pm, in_feats, n) ==
    IF ~Lf0IndexOk(in_feats, n.mu, pm.in_lf0_idx, pm.out_lf0_idx)
    THEN Raised("IndexError", n)
    ELSE LET c == predict_lf0_with_residual(
                      in_feats, n.mu, pm.in_lf0_idx, pm.in_lf0_min,
                      pm.in_lf0_max, pm.out_lf0_idx, pm.out_lf0_mean,
                      pm.out_lf0_scale, DefaultResidualF0MaxCent)
         IN  IF ~CanSetLast(n.mu, Squeeze(c.lf0_pred))
             THEN Raised("RuntimeError", n)
             ELSE [status |-> "ok", log_pi |-> n.log_pi,
                   log_sigma |-> n.log_sigma,
                   mu |-> Inject(n.mu, pm.out_lf0_idx, c.lf0_pred),
                   lf0_pred |-> c.lf0_pred,
                   lf0_residual |-> c.lf0_residual,
                   in_feats |-> in_feats]

ResF0Conv1dResnet_forward(pm, in_feats, n) == CorrectAndInject(pm, in_feats, n)

ResSkipF0FFConvLSTM_forward(pm, in_feats, n) == CorrectAndInject(pm, in_feats, n)

ResF0VariancePredictor_forward(pm, in_feats, n) == CorrectAndInject(pm, in_feats, n)

PredictorForward(pm, in_feats, n) ==
    CASE pm.kind = "ResF0Conv1dResnet" -> ResF0Conv1dResnet_forward(pm, in_feats, n)
      [] pm.kind = "ResSkipF0FFConvLSTM" -> ResSkipF0FFConvLSTM_forward(pm, in_feats, n)
      [] pm.kind = "ResF0VariancePredictor" ->
             ResF0VariancePredictor_forward(pm, in_feats, n)

-----------------------------------------------------------------------------
(* State before any call, and the composer's variables when unused *)

NoPredictor == [out_dim |-> 0, has_out_dim |-> FALSE]

NoNet == [x |-> NoTensor, log_pi |-> NoTensor, log_sigma |-> NoTensor,
          mu |-> NoTensor, cents |-> 0, pm |-> NoPredictor]

NoRet == [call |-> "none", status |-> "none", log_pi |-> NoTensor,
          log_sigma |-> NoTensor, mu |-> NoTensor, lf0_pred |-> NoTensor,
          lf0_residual |-> NoTensor]

NoComposer ==
    [state |-> "none", energy_stream_sizes |-> <<>>, pitch_stream_sizes |-> <<>>,
     timbre_stream_sizes |-> <<>>, in_lf0_idx |-> 0, in_lf0_min |-> 0,
     in_lf0_max |-> 0, out_lf0_idx |-> 0, out_lf0_mean |-> 0,
     out_lf0_scale |-> 0]

NoLoc == [energy_out |-> NoTensor, timbre_out |-> NoTensor, erg |-> NoTensor,
          lf0 |-> NoTensor, vuv |-> NoTensor, vib |-> NoTensor,
          vib_flags |-> NoTensor, mgc |-> NoTensor, bap |-> NoTensor,
          lf0_residual |-> NoTensor, seed |-> 0, order |-> <<>>]

NoResult == [call |-> "none", status |-> "none", out |-> NoTensor,
             lf0_residual |-> NoTensor]

\* no second composer, no shallow-AR call, no inference call
NoPeer == [state |-> "none"]
NoInf == [call |-> "none"]

NoSarModel == [kind |-> "none", out_dim |-> 0, stream_sizes |-> <<>>,
               analysis_filts |-> <<>>]

NoSarCall ==
    [call |-> "none", status |-> "none", m |-> NoSarModel,
     target |-> NoTensor, xin |-> NoTensor, xin2 |-> NoTensor,
     inp |-> NoTensor, inp2 |-> NoTensor, out |-> NoTensor, out2 |-> NoTensor,
     resid |-> NoTensor, resid2 |-> NoTensor, pert |-> {}, lengths |-> <<>>]

composerVars == <<composer, energy_model, timbre_model, pc, loc, result>>

\* the variables of the other specifications
postVars == <<peer, sar, inf>>

-----------------------------------------------------------------------------
(* Specification SpecResF0: a residual-F0 predictor used on its own *)

PredictorConfigs ==
    {NewPredictor(kind, OutDim, FALSE, mdn, g, p, oidx) :
        kind \in Kinds, mdn \in BOOLEAN, g \in 1..MaxGaussians,
        p \in ParamSets, oidx \in OutIdxValues}

ValidPredictor(pm) ==
    /\ pm.kind = "ResF0VariancePredictor" => ~pm.use_mdn
    /\ ~pm.use_mdn => pm.num_gaussians = 1

CentsValues == {DefaultResidualF0MaxCent, 2 * DefaultResidualF0MaxCent}

\* a call returns: the caller's batch is whatever the call left in it
Returned(call, r) ==
    [call |-> call, status |-> r.status, log_pi |-> r.log_pi,
     log_sigma |-> r.log_sigma, mu |-> r.mu, lf0_pred |-> r.lf0_pred,
     lf0_residual |-> r.lf0_residual]

\* a direct call of the module-level function on a batch and a raw output
CallPredictLf0 ==
    /\ ret.call = "none"
    /\ \E bt \in Shapes, seed \in 0..MaxSeed, r \in 0..(NumRaw - 1),
       cents \in CentsValues :
        LET in_feats == XGen(bt, seed)
            n  == NetCall(pitch_model, in_feats, NetOutputs(pitch_model, bt, r), cents)
            pm == pitch_model
        IN  /\ net' = n
            /\ IF ~Lf0IndexOk(in_feats, n.mu, pm.in_lf0_idx, pm.out_lf0_idx)
               THEN /\ ret' = Returned("predict_lf0_with_residual",
                                       Raised("IndexError", n))
                    /\ x' = in_feats
               ELSE LET c == predict_lf0_with_residual(
                                 in_feats, n.mu, pm.in_lf0_idx, pm.in_lf0_min,
                                 pm.in_lf0_max, pm.out_lf0_idx, pm.out_lf0_mean,
                                 pm.out_lf0_scale, cents)
                    IN  /\ ret' = [call |-> "predict_lf0_with_residual",
                                   status |-> "ok", log_pi |-> n.log_pi,
                                   log_sigma |-> n.log_sigma, mu |-> n.mu,
                                   lf0_pred |-> c.lf0_pred,
                                   lf0_residual |-> c.lf0_residual]
                        /\ x' = in_feats
            /\ UNCHANGED <<pitch_model, composerVars, postVars>>

\* forward of the predictor object on a batch
Forward(kind) ==
    /\ ret.call = "none"
    /\ pitch_model.kind = kind
    /\ \E bt \in Shapes, seed \in 0..MaxSeed, r \in 0..(NumRaw - 1) :
        LET in_feats == XGen(bt, seed)
            n == NetCall(pitch_model, in_feats, NetOutputs(pitch_model, bt, r),
                         DefaultResidualF0MaxCent)
            f == PredictorForward(pitch_model, in_feats, n)
        IN  /\ net' = n
            /\ ret' = Returned("forward", f)
            /\ x' = f.in_feats
    /\ UNCHANGED <<pitch_model, composerVars, postVars>>

ForwardResF0Conv1dResnet == Forward("ResF0Conv1dResnet")
ForwardResSkipF0FFConvLSTM == Forward("ResSkipF0FFConvLSTM")
ForwardResF0VariancePredictor == Forward("ResF0VariancePredictor")

\* the caller drops the batch and the returned tensors; nothing of a call
\* survives but the predictor's and the composer's attributes
Discard ==
    /\ pc = "idle"
    /\ ret.call # "none" \/ result.call \in {"forward", "inference"}
    /\ x' = NoTensor
    /\ net' = NoNet
    /\ ret' = NoRet
    /\ loc' = NoLoc
    /\ result' = [NoResult EXCEPT
                     !.call = IF result.call = "none" THEN "none" ELSE "consumed"]
    /\ UNCHANGED <<pitch_model, composer, energy_model, timbre_model, pc, postVars>>

InitResF0 ==
    /\ pitch_model \in {pm \in PredictorConfigs : ValidPredictor(pm)}
    /\ x = NoTensor
    /\ net = NoNet
    /\ ret = NoRet
    /\ composer = NoComposer
    /\ energy_model = NoPredictor
    /\ timbre_model = NoPredictor
    /\ pc = "idle"
    /\ loc = NoLoc
    /\ result = NoResult
    /\ peer = NoPeer
    /\ sar = NoSarCall
    /\ inf = NoInf

NextResF0 ==
    \/ CallPredictLf0
    \/ ForwardResF0Conv1dResnet
    \/ ForwardResSkipF0FFConvLSTM
    \/ ForwardResF0VariancePredictor
    \/ Discard

SpecResF0 == InitResF0 /\ [][NextResF0]_vars

-----------------------------------------------------------------------------
(* Streams: split_streams (nnsvs.multistream) and torch.cat *)

RECURSIVE SumSeq(_)
SumSeq(q) == IF q = <<>> THEN 0 ELSE q[1] + SumSeq(Tail(q))

\* t[..., start : start + size]
SliceLast(t, start, size) ==
    [shape |-> Front(t.shape) \o <<size>>,
     data  |-> [ix \in Idx(Front(t.shape) \o <<size>>) |->
                  t.data[Front(ix) \o <<start + Last(ix)>>]]]

\* the widths must sum to the width of the vector
SplitOk(t, stream_sizes) == SumSeq(stream_sizes) = Last(t.shape)

\* the sub-vectors, in the declared order
split_streams(t, stream_sizes) ==
    [i \in 1..Len(stream_sizes) |->
        SliceLast(t, SumSeq(SubSeq(stream_sizes, 1, i - 1)), stream_sizes[i])]

\* torch.cat([a, b], dim=-1)
Cat2(a, b) ==
    LET wa == Last(a.shape)
        sh == Front(a.shape) \o <<wa + Last(b.shape)>>
    IN  [shape |-> sh,
         data  |-> [ix \in Idx(sh) |->
                      IF Last(ix) < wa THEN a.data[ix]
                      ELSE b.data[Front(ix) \o <<Last(ix) - wa>>]]]

\* torch.cat(list, dim=-1)
RECURSIVE CatLast(_)
CatLast(q) == IF Len(q) = 1 THEN q[1] ELSE Cat2(CatLast(Front(q)), Last(q))

-----------------------------------------------------------------------------
(* MultistreamParametricModel *)

DimCheck_always(model, stream_sizes) == model.out_dim = SumSeq(stream_sizes)

\* if hasattr(model, "out_dim"): assert model.out_dim == sum(stream_sizes)
DimCheck(model, stream_sizes) ==
    model.has_out_dim => model.out_dim = SumSeq(stream_sizes)

\* __init__: the three consistency assertions, then the attributes
MultistreamInit(em, ess, pm, pss, tm, tss, p, out_lf0_idx) ==
    [state |-> IF DimCheck(em, ess) /\ DimCheck(pm, pss) /\ DimCheck(tm, tss)
               THEN "built" ELSE "AssertionError",
     energy_stream_sizes |-> ess, pitch_stream_sizes |-> pss,
     timbre_stream_sizes |-> tss, in_lf0_idx |-> p.in_lf0_idx,
     in_lf0_min |-> p.in_lf0_min, in_lf0_max |-> p.in_lf0_max,
     out_lf0_idx |-> out_lf0_idx, out_lf0_mean |-> p.out_lf0_mean,
     out_lf0_scale |-> p.out_lf0_scale]

set_lf0_params_skip_scale(c, pm) ==
    [pm EXCEPT !.in_lf0_idx = c.in_lf0_idx, !.in_lf0_min = c.in_lf0_min,
               !.in_lf0_max = c.in_lf0_max, !.out_lf0_mean = c.out_lf0_mean]

set_lf0_params_with_out_idx(c, pm) ==
    [pm EXCEPT !.in_lf0_idx = c.in_lf0_idx, !.in_lf0_min = c.in_lf0_min,
               !.in_lf0_max = c.in_lf0_max, !.out_lf0_mean = c.out_lf0_mean,
               !.out_lf0_scale = c.out_lf0_scale, !.out_lf0_idx = c.out_lf0_idx]

\* _set_lf0_params: the pitch model of this file always has out_lf0_mean;
\* out_lf0_idx is not overwritten
set_lf0_params(c, pm) ==
    [pm EXCEPT !.in_lf0_idx = c.in_lf0_idx, !.in_lf0_min = c.in_lf0_min,
               !.in_lf0_max = c.in_lf0_max, !.out_lf0_mean = c.out_lf0_mean,
               !.out_lf0_scale = c.out_lf0_scale]

EnergyLevel_all(out, energy_stream_sizes) == out

\* erg = split_streams(out, self.energy_stream_sizes)[0]
EnergyLevel(out, energy_stream_sizes) == split_streams(out, energy_stream_sizes)[1]

MergeSpectral_behind(erg, mgc) == Cat2(mgc, erg)

\* mgc = torch.cat([erg, mgc], dim=-1)
MergeSpectral(erg, mgc) == Cat2(erg, mgc)

JoinStreams_swapped(n, l) ==
    IF n = 2 THEN CatLast(<<l.mgc, l.vuv, l.lf0, l.bap>>)
    ELSE IF n = 3 THEN CatLast(<<l.mgc, l.vuv, l.lf0, l.bap, l.vib>>)
    ELSE CatLast(<<l.mgc, l.vuv, l.lf0, l.bap, l.vib, l.vib_flags>>)

JoinStreams_vib_first(n, l) ==
    IF n = 2 THEN CatLast(<<l.mgc, l.lf0, l.vuv, l.bap>>)
    ELSE IF n = 3 THEN CatLast(<<l.mgc, l.lf0, l.vuv, l.vib, l.bap>>)
    ELSE CatLast(<<l.mgc, l.lf0, l.vuv, l.vib, l.bap, l.vib_flags>>)

\* the concatenated stream, by the number n of pitch sub-streams
JoinStreams(n, l) ==
    IF n = 2 THEN CatLast(<<l.mgc, l.lf0, l.vuv, l.bap>>)
    ELSE IF n = 3 THEN CatLast(<<l.mgc, l.lf0, l.vuv, l.bap, l.vib>>)
    ELSE CatLast(<<l.mgc, l.lf0, l.vuv, l.bap, l.vib, l.vib_flags>>)

PitchUnpackOk_lenient(n) == n >= 2

\* the tuple a pitch output of n sub-streams unpacks into: n = 2 and n = 3
\* have their own branch, every other n takes the 4-name unpacking
PitchUnpackOk(n) == n \in {2, 3, 4}

EnergyBase == 4000 * One
TimbreBase == 5000 * One
PitchBase == 6000 * One
SeedStride == 250 * One

\* output of the energy / timbre predictor: (B, T, out_dim)
PlainOut(model, bt, base, seed) ==
    Tensor(bt \o <<model.out_dim>>, LAMBDA ix : TagOf(base + seed * SeedStride, ix))

\* raw output of the pitch predictor's network: (B, T, out_dim)
PitchNet(pm, bt, seed) ==
    [log_pi |-> NoTensor, log_sigma |-> NoTensor,
     mu |-> NetGen(bt \o <<pm.out_dim>>, PitchBase + seed * SeedStride,
                   pm.out_lf0_idx, MaxRaw + seed)]

\* stream layouts a composer is built with: the layout of the acoustic
\* features of the recipes (1 + 179, 15 | 1, 1, 3) and small ones of every
\* pitch arity, with timbre lists of 1, 2 and 3 streams
LayoutConfigs ==
    { [energy |-> <<1>>,    timbre |-> <<179, 15>>, pitch |-> <<1, 1, 3>>],
      [energy |-> <<1, 2>>, timbre |-> <<2, 1>>,    pitch |-> <<1, 1>>],
      [energy |-> <<2, 1>>, timbre |-> <<1, 2>>,    pitch |-> <<1, 2, 1, 1>>],
      [energy |-> <<1>>,    timbre |-> <<2, 1>>,    pitch |-> <<2, 1, 1>>],
      [energy |-> <<1>>,    timbre |-> <<2, 1>>,    pitch |-> <<2>>],
      [energy |-> <<1>>,    timbre |-> <<2, 1>>,    pitch |-> <<1, 1, 1, 1, 1>>],
      [energy |-> <<1>>,    timbre |-> <<3>>,       pitch |-> <<1, 1>>],
      [energy |-> <<1>>,    timbre |-> <<1, 1, 1>>, pitch |-> <<1, 1>>] }

Mismatches == {"none", "energy", "pitch", "timbre"}

\* declared width of a predictor: the sum of its layout, or one less
DeclaredDim(sizes, short) == SumSeq(sizes) - (IF short THEN 1 ELSE 0)

DefaultParams == CHOOSE p \in ParamSets : p.in_lf0_min = DefaultInLf0Min

\* what a composer is built from.  Predictors whose width agrees with the
\* layout and that store no out_dim are drawn with every kind, parameter
\* set and out_lf0_idx; a width that is one short, and predictors that
\* expose out_dim, are drawn with the default parameters.
BuildConfigs ==
    {[lay |-> lay, mm |-> "none", attr |-> FALSE, kind |-> kind, cp |-> cp,
      pp |-> pp, oidx |-> oidx] :
        lay \in LayoutConfigs, kind \in Kinds, cp \in ParamSets,
        pp \in ParamSets, oidx \in OutIdxValues}
    \cup
    {[lay |-> lay, mm |-> mm, attr |-> attr, kind |-> "ResF0Conv1dResnet",
      cp |-> DefaultParams, pp |-> DefaultParams, oidx |-> 0] :
        lay \in LayoutConfigs, mm \in Mismatches, attr \in BOOLEAN}

\* the predictors are built, then the composer from them
Construct ==
    /\ composer.state = "none"
    /\ \E b \in BuildConfigs :
        LET em == [out_dim |-> DeclaredDim(b.lay.energy, b.mm = "energy"),
                   has_out_dim |-> b.attr]
            tm == [out_dim |-> DeclaredDim(b.lay.timbre, b.mm = "timbre"),
                   has_out_dim |-> b.attr]
            pm == NewPredictor(b.kind, DeclaredDim(b.lay.pitch, b.mm = "pitch"),
                               b.attr, FALSE, 1, b.pp, b.oidx)
        IN  /\ energy_model' = em
            /\ timbre_model' = tm
            /\ pitch_model' = pm
            /\ composer' = MultistreamInit(em, b.lay.energy, pm, b.lay.pitch,
                                           tm, b.lay.timbre, b.cp, DefaultOutLf0Idx)
    /\ UNCHANGED <<x, net, ret, pc, loc, result, postVars>>

\* an exception leaves forward: nothing is returned
Fail(e) ==
    /\ pc' = "idle"
    /\ result' = [call |-> "forward", status |-> e, out |-> NoTensor,
                  lf0_residual |-> NoTensor]

\* forward is entered with a batch: self._set_lf0_params()
ForwardSetLf0Params ==
    /\ composer.state = "built"
    /\ pc = "idle"
    /\ result.call \in {"none", "consumed"}
    /\ \E bt \in Shapes, seed \in 0..MaxSeed :
          /\ x' = XGen(bt, seed)
          /\ loc' = [NoLoc EXCEPT !.seed = seed]
    /\ pitch_model' = set_lf0_params(composer, pitch_model)
    /\ pc' = "params_set"
    /\ net' = NoNet
    /\ ret' = NoRet
    /\ result' = NoResult
    /\ UNCHANGED <<composer, energy_model, timbre_model, postVars>>

\* out = self.energy_model(x, lengths); erg = split_streams(...)[0]
ForwardEnergy ==
    /\ pc = "params_set"
    /\ LET out == PlainOut(energy_model, <<x.shape[1], x.shape[2]>>,
                           EnergyBase, loc.seed)
       IN  IF ~SplitOk(out, composer.energy_stream_sizes)
           THEN /\ Fail("LayoutMismatchError")
                /\ loc' = [loc EXCEPT !.energy_out = out]
           ELSE /\ pc' = "energy_done"
                /\ loc' = [loc EXCEPT
                             !.energy_out = out,
                             !.erg = EnergyLevel(out, composer.energy_stream_sizes)]
                /\ UNCHANGED result
    /\ UNCHANGED <<pitch_model, x, net, ret, composer, energy_model, timbre_model,
                   postVars>>

\* out, lf0_residual = self.pitch_model(x, lengths), split by the arity
ForwardPitch ==
    /\ pc = "energy_done"
    /\ LET n == NetCall(pitch_model, x,
                        PitchNet(pitch_model, <<x.shape[1], x.shape[2]>>, loc.seed),
                        DefaultResidualF0MaxCent)
           f == PredictorForward(pitch_model, x, n)
           pss == composer.pitch_stream_sizes
           ps == split_streams(f.mu, pss)
       IN  /\ net' = n
           /\ ret' = Returned("forward", f)
           /\ x' = f.in_feats
           /\ IF f.status # "ok"
              THEN Fail(f.status) /\ UNCHANGED loc
              ELSE IF ~SplitOk(f.mu, pss)
              THEN Fail("LayoutMismatchError") /\ UNCHANGED loc
              ELSE IF ~PitchUnpackOk(Len(pss))
              THEN Fail("ValueError") /\ UNCHANGED loc
              ELSE /\ pc' = "pitch_done"
                   /\ loc' = [loc EXCEPT
                                !.lf0_residual = f.lf0_residual,
                                !.lf0 = ps[1],
                                !.vuv = ps[2],
                                !.vib = IF Len(pss) >= 3 THEN ps[3] ELSE NoTensor,
                                !.vib_flags = IF Len(pss) = 4 THEN ps[4] ELSE NoTensor]
                   /\ UNCHANGED result
    /\ UNCHANGED <<pitch_model, composer, energy_model, timbre_model, postVars>>

\* out = self.timbre_model(x, lengths); mgc, bap = split_streams(...);
\* mgc = torch.cat([erg, mgc], dim=-1)
ForwardTimbre ==
    /\ pc = "pitch_done"
    /\ LET out == PlainOut(timbre_model, <<x.shape[1], x.shape[2]>>,
                           TimbreBase, loc.seed)
           tss == composer.timbre_stream_sizes
           ts == split_streams(out, tss)
       IN  IF ~SplitOk(out, tss)
           THEN Fail("LayoutMismatchError") /\ loc' = [loc EXCEPT !.timbre_out = out]
           ELSE IF Len(tss) # 2
           THEN Fail("ValueError") /\ loc' = [loc EXCEPT !.timbre_out = out]
           ELSE /\ pc' = "timbre_done"
                /\ loc' = [loc EXCEPT !.timbre_out = out,
                                      !.mgc = MergeSpectral(loc.erg, ts[1]),
                                      !.bap = ts[2]]
                /\ UNCHANGED result
    /\ UNCHANGED <<pitch_model, x, net, ret, composer, energy_model, timbre_model,
                   postVars>>

\* make a concatenated stream; return out, lf0_residual
ForwardConcat ==
    /\ pc = "timbre_done"
    /\ pc' = "idle"
    /\ result' = [call |-> "forward", status |-> "ok",
                  out |-> JoinStreams(Len(composer.pitch_stream_sizes), loc),
                  lf0_residual |-> loc.lf0_residual]
    /\ UNCHANGED <<pitch_model, x, net, ret, composer, energy_model,
                   timbre_model, loc, postVars>>

\* inference: out, _ = self(x, lengths); return out.  The forward call that
\* just returned was made by inference, which hands on the vector only.
Inference ==
    /\ pc = "idle"
    /\ result.call = "forward"
    /\ result.status = "ok"
    /\ result' = [result EXCEPT !.call = "inference", !.lf0_residual = NoTensor]
    /\ UNCHANGED <<pitch_model, x, net, ret, composer, energy_model,
                   timbre_model, pc, loc, postVars>>

Init ==
    /\ pitch_model = NewPredictor("ResF0Conv1dResnet", 0, FALSE, FALSE, 1,
                                  CHOOSE p \in ParamSets : p.in_lf0_idx = 0, 0)
    /\ x = NoTensor
    /\ net = NoNet
    /\ ret = NoRet
    /\ composer = NoComposer
    /\ energy_model = NoPredictor
    /\ timbre_model = NoPredictor
    /\ pc = "idle"
    /\ loc = NoLoc
    /\ result = NoResult
    /\ peer = NoPeer
    /\ sar = NoSarCall
    /\ inf = NoInf

Next ==
    \/ Construct
    \/ ForwardSetLf0Params
    \/ ForwardEnergy
    \/ ForwardPitch
    \/ ForwardTimbre
    \/ ForwardConcat
    \/ Inference
    \/ Discard

Spec == Init /\ [][Next]_vars


-----------------------------------------------------------------------------
(* Specification SpecAnyOrder: MultistreamParametricModel.forward with the *)
(* three predictor invocations taken in any order.  An invocation is the   *)
(* call of the predictor together with the split of what it returned; the  *)
(* merge of the energy into the envelope and the concatenation follow when *)
(* all three have returned.                                                *)

\* pc after _set_lf0_params: the invocations that have returned; loc.order
\* keeps the order in which they returned
ParPcs == {"params_set", "E", "P", "T", "EP", "ET", "PT", "EPT"}

DoneIn(p) ==
    CASE p = "params_set" -> {}
      [] p = "E" -> {"E"}
      [] p = "P" -> {"P"}
      [] p = "T" -> {"T"}
      [] p = "EP" -> {"E", "P"}
      [] p = "ET" -> {"E", "T"}
      [] p = "PT" -> {"P", "T"}
      [] p = "EPT" -> {"E", "P", "T"}

PcWith(p, u) == CHOOSE q \in ParPcs : DoneIn(q) = DoneIn(p) \cup {u}

Pending(u) == pc \in ParPcs /\ u \notin DoneIn(pc)

EnergyUnit_shared_local(l, out, ess) ==
    LET o == IF l.timbre_out # NoTensor /\ SplitOk(l.timbre_out, ess)
             THEN l.timbre_out ELSE out
    IN  [l EXCEPT !.energy_out = out, !.erg = EnergyLevel(o, ess),
                  !.order = Append(@, "E")]

\* out = self.energy_model(x, lengths); erg = split_streams(out, ...)[0]
EnergyUnit(l, out, ess) ==
    [l EXCEPT !.energy_out = out, !.erg = EnergyLevel(out, ess),
              !.order = Append(@, "E")]

\* out, lf0_residual = self.pitch_model(x, lengths); the unpacking of the
\* split by the number of pitch sub-streams
PitchUnit(l, f, pss) ==
    LET ps == split_streams(f.mu, pss)
    IN  [l EXCEPT !.lf0_residual = f.lf0_residual,
                  !.lf0 = ps[1],
                  !.vuv = ps[2],
                  !.vib = IF Len(pss) >= 3 THEN ps[3] ELSE NoTensor,
                  !.vib_flags = IF Len(pss) = 4 THEN ps[4] ELSE NoTensor,
                  !.order = Append(@, "P")]

\* out = self.timbre_model(x, lengths); mgc, bap = split_streams(out, ...)
TimbreUnit(l, out, tss) ==
    LET ts == split_streams(out, tss)
    IN  [l EXCEPT !.timbre_out = out, !.mgc = ts[1], !.bap = ts[2],
                  !.order = Append(@, "T")]

InvokeEnergy ==
    /\ Pending("E")
    /\ LET out == PlainOut(energy_model, <<x.shape[1], x.shape[2]>>,
                           EnergyBase, loc.seed)
       IN  IF ~SplitOk(out, composer.energy_stream_sizes)
           THEN /\ Fail("LayoutMismatchError")
                /\ loc' = [loc EXCEPT !.energy_out = out]
           ELSE /\ pc' = PcWith(pc, "E")
                /\ loc' = EnergyUnit(loc, out, composer.energy_stream_sizes)
                /\ UNCHANGED result
    /\ UNCHANGED <<pitch_model, x, net, ret, composer, energy_model, timbre_model,
                   postVars>>

InvokePitch ==
    /\ Pending("P")
    /\ LET n == NetCall(pitch_model, x,
                        PitchNet(pitch_model, <<x.shape[1], x.shape[2]>>, loc.seed),
                        DefaultResidualF0MaxCent)
           f == PredictorForward(pitch_model, x, n)
           pss == composer.pitch_stream_sizes
       IN  /\ net' = n
           /\ ret' = Returned("forward", f)
           /\ x' = f.in_feats
           /\ IF f.status # "ok"
              THEN Fail(f.status) /\ UNCHANGED loc
              ELSE IF ~SplitOk(f.mu, pss)
              THEN Fail("LayoutMismatchError") /\ UNCHANGED loc
              ELSE IF ~PitchUnpackOk(Len(pss))
              THEN Fail("ValueError") /\ UNCHANGED loc
              ELSE /\ pc' = PcWith(pc, "P")
                   /\ loc' = PitchUnit(loc, f, pss)
                   /\ UNCHANGED result
    /\ UNCHANGED <<pitch_model, composer, energy_model, timbre_model, postVars>>

InvokeTimbre ==
    /\ Pending("T")
    /\ LET out == PlainOut(timbre_model, <<x.shape[1], x.shape[2]>>,
                           TimbreBase, loc.seed)
           tss == composer.timbre_stream_sizes
       IN  IF ~SplitOk(out, tss)
           THEN Fail("LayoutMismatchError") /\ loc' = [loc EXCEPT !.timbre_out = out]
           ELSE IF Len(tss) # 2
           THEN Fail("ValueError") /\ loc' = [loc EXCEPT !.timbre_out = out]
           ELSE /\ pc' = PcWith(pc, "T")
                /\ loc' = TimbreUnit(loc, out, tss)
                /\ UNCHANGED result
    /\ UNCHANGED <<pitch_model, x, net, ret, composer, energy_model, timbre_model,
                   postVars>>

\* mgc = torch.cat([erg, mgc], dim=-1); the concatenated stream
MergeAndConcat ==
    /\ pc = "EPT"
    /\ pc' = "idle"
    /\ LET l == [loc EXCEPT !.mgc = MergeSpectral(loc.erg, loc.mgc)]
       IN  /\ loc' = l
           /\ result' = [call |-> "forward", status |-> "ok",
                         out |-> JoinStreams(Len(composer.pitch_stream_sizes), l),
                         lf0_residual |-> l.lf0_residual]
    /\ UNCHANGED <<pitch_model, x, net, ret, composer, energy_model,
                   timbre_model, postVars>>

\* the composers of this specification: every layout, with the composer's
\* parameters either set, and every predictor one column short in turn
AnyOrderConfigs ==
    {b \in BuildConfigs :
        /\ b.kind = "ResF0Conv1dResnet" /\ b.oidx = 0 /\ ~b.attr
        /\ b.pp = DefaultParams}

InitAnyOrder ==
    /\ x = NoTensor
    /\ net = NoNet
    /\ ret = NoRet
    /\ pc = "idle"
    /\ loc = NoLoc
    /\ result = NoResult
    /\ peer = NoPeer
    /\ sar = NoSarCall
    /\ inf = NoInf
    /\ \E b \in AnyOrderConfigs :
        LET em == [out_dim |-> DeclaredDim(b.lay.energy, b.mm = "energy"),
                   has_out_dim |-> b.attr]
            tm == [out_dim |-> DeclaredDim(b.lay.timbre, b.mm = "timbre"),
                   has_out_dim |-> b.attr]
            pm == NewPredictor(b.kind, DeclaredDim(b.lay.pitch, b.mm = "pitch"),
                               b.attr, FALSE, 1, b.pp, b.oidx)
        IN  /\ energy_model = em
            /\ timbre_model = tm
            /\ pitch_model = pm
            /\ composer = MultistreamInit(em, b.lay.energy, pm, b.lay.pitch,
                                          tm, b.lay.timbre, b.cp, DefaultOutLf0Idx)

NextAnyOrder ==
    \/ ForwardSetLf0Params
    \/ InvokeEnergy
    \/ InvokePitch
    \/ InvokeTimbre
    \/ MergeAndConcat
    \/ Discard

SpecAnyOrder == InitAnyOrder /\ [][NextAnyOrder]_vars

\* forward as the source runs it: energy, pitch, timbre, one after the other
SequentialForward(c, em, pm, tm, in_feats, seed) ==
    LET bt   == <<in_feats.shape[1], in_feats.shape[2]>>
        no   == [status |-> "error", out |-> NoTensor, lf0_residual |-> NoTensor]
        eout == PlainOut(em, bt, EnergyBase, seed)
        n    == NetCall(pm, in_feats, PitchNet(pm, bt, seed), DefaultResidualF0MaxCent)
        f    == PredictorForward(pm, in_feats, n)
        tout == PlainOut(tm, bt, TimbreBase, seed)
    IN  IF ~SplitOk(eout, c.energy_stream_sizes) THEN no
        ELSE IF f.status # "ok" \/ ~SplitOk(f.mu, c.pitch_stream_sizes)
                \/ ~PitchUnpackOk(Len(c.pitch_stream_sizes)) THEN no
        ELSE IF ~SplitOk(tout, c.timbre_stream_sizes)
                \/ Len(c.timbre_stream_sizes) # 2 THEN no
        ELSE LET l1 == [NoLoc EXCEPT
                          !.energy_out = eout,
                          !.erg = EnergyLevel(eout, c.energy_stream_sizes)]
                 l2 == PitchUnit(l1, f, c.pitch_stream_sizes)
                 ts == split_streams(tout, c.timbre_stream_sizes)
                 l3 == [l2 EXCEPT !.timbre_out = tout,
                                  !.mgc = MergeSpectral(l2.erg, ts[1]),
                                  !.bap = ts[2]]
             IN  [status |-> "ok",
                  out |-> JoinStreams(Len(c.pitch_stream_sizes), l3),
                  lf0_residual |-> l3.lf0_residual]

-----------------------------------------------------------------------------
(* Specification SpecShared: two composers built around one pitch          *)
(* predictor, each called from its own thread.  The variables composer,    *)
(* x, net, ret, pc, loc and result are those of the running thread; peer   *)
(* holds the composer and the frame of the suspended one.  pitch_model,    *)
(* the object both composers refer to, is the only state the threads share *)
(* that a call writes.                                                     *)

\* the composers that share the predictor: one layout, the first with the
\* default parameters, the second with either set
SharedLayout ==
    [energy |-> <<1>>, timbre |-> <<2, 1>>, pitch |-> <<2, 1, 1>>]

\* a thread is suspended between two calls or after self._set_lf0_params()
SwitchPoints == {"idle", "params_set"}

ThisThread ==
    [state |-> "suspended", composer |-> composer, x |-> x, net |-> net,
     ret |-> ret, pc |-> pc, loc |-> loc, result |-> result]

\* the scheduler suspends the running thread and resumes the other one
Switch ==
    /\ peer.state = "suspended"
    /\ pc \in SwitchPoints
    /\ pc = "idle" => result.call \in {"none", "consumed"}
    /\ peer' = ThisThread
    /\ composer' = peer.composer
    /\ x' = peer.x
    /\ net' = peer.net
    /\ ret' = peer.ret
    /\ pc' = peer.pc
    /\ loc' = peer.loc
    /\ result' = peer.result
    /\ UNCHANGED <<pitch_model, energy_model, timbre_model, sar, inf>>

InitShared ==
    /\ x = NoTensor
    /\ net = NoNet
    /\ ret = NoRet
    /\ pc = "idle"
    /\ loc = NoLoc
    /\ result = NoResult
    /\ sar = NoSarCall
    /\ inf = NoInf
    /\ \E kind \in {"ResF0Conv1dResnet", "ResSkipF0FFConvLSTM"},
          cp1 \in {DefaultParams}, cp2 \in ParamSets :
        LET lay == SharedLayout
            em == [out_dim |-> SumSeq(lay.energy), has_out_dim |-> FALSE]
            tm == [out_dim |-> SumSeq(lay.timbre), has_out_dim |-> FALSE]
            pm == NewPredictor(kind, SumSeq(lay.pitch), FALSE, FALSE, 1,
                               DefaultParams, 0)
            c1 == MultistreamInit(em, lay.energy, pm, lay.pitch, tm, lay.timbre,
                                  cp1, DefaultOutLf0Idx)
            c2 == MultistreamInit(em, lay.energy, pm, lay.pitch, tm, lay.timbre,
                                  cp2, DefaultOutLf0Idx)
        IN  /\ energy_model = em
            /\ timbre_model = tm
            /\ pitch_model = pm
            /\ composer = c1
            /\ peer = [state |-> "suspended", composer |-> c2, x |-> NoTensor,
                       net |-> NoNet, ret |-> NoRet, pc |-> "idle",
                       loc |-> NoLoc, result |-> NoResult]

NextShared ==
    \/ ForwardSetLf0Params
    \/ ForwardEnergy
    \/ ForwardPitch
    \/ ForwardTimbre
    \/ ForwardConcat
    \/ Discard
    \/ Switch

SpecShared == InitShared /\ [][NextShared]_vars

-----------------------------------------------------------------------------
(* Shallow AR: the analysis filters (TrTimeInvFIRFilter of nnsvs.dsp), the  *)
(* recursion of torchaudio's lfilter, _shallow_ar_inference and the        *)
(* preprocess_target / inference methods of the two SAR predictors.        *)
(* The transposes to and from the (B, C, T) format are left implicit:      *)
(* every array is indexed (b, t, d).                                       *)

MaxOrder == 2        \* AR orders 0..MaxOrder

Min2(a, b) == IF a <= b THEN a ELSE b

\* s.flip(0)
Flip(s) == [i \in 1..Len(s) |-> s[Len(s) + 1 - i]]

UnitImpulse_last(n) == [i \in 1..n |-> IF i = n THEN One ELSE 0]

\* torch.zeros_like(ai) with element 0 set to 1
UnitImpulse(n) == [i \in 1..n |-> IF i = 1 THEN One ELSE 0]

\* get_filt_coefs of one stream's filter: one row of K + 1 taps per
\* dimension, stored with the highest lag first; the zero-lag tap, the
\* last of the row, is fixed to 1
get_filt_coefs(filt) ==
    [d \in 1..Len(filt) |->
        [j \in 1..Len(filt[d]) |-> IF j = Len(filt[d]) THEN One ELSE filt[d][j]]]

\* the filter applied to a stream (B, T, C): a causal convolution along
\* time with zero history, every dimension with its own row
filt_forward(filt, yi) ==
    LET b == get_filt_coefs(filt)
    IN  [shape |-> yi.shape,
         data  |-> [ix \in Idx(yi.shape) |->
                      LET row == b[ix[3] + 1]
                          K   == Len(row) - 1
                          n   == Min2(K, ix[2])
                      IN  SumSeq([k1 \in 1..(n + 1) |->
                                    FxMul(row[K + 2 - k1],
                                          yi.data[<<ix[1], ix[2] - (k1 - 1), ix[3]>>])])]]

\* the first n output samples of the difference equation
\* a[0] y[t] = sum_k b[k] x[t - k] - sum_{k >= 1} a[k] y[t - k]
RECURSIVE LFilterRow(_, _, _, _)
LFilterRow(xs, a, b, n) ==
    IF n = 0 THEN <<>>
    ELSE LET prev == LFilterRow(xs, a, b, n - 1)
             m    == Min2(Len(a) - 1, n - 1)
             ff   == SumSeq([k1 \in 1..(m + 1) |-> FxMul(b[k1], xs[n - (k1 - 1)])])
             fb   == SumSeq([k1 \in 1..m |-> FxMul(a[k1 + 1], prev[n - k1])])
         IN  Append(prev, FxDiv(ff - fb, a[1]))

lfilter_time_reversed(waveform, a_coeffs, b_coeffs) ==
    LET B == waveform.shape[1]
        T == waveform.shape[2]
        rows == [bb \in 0..(B - 1) |->
                    LFilterRow([t \in 1..T |-> waveform.data[<<bb, T - t>>]],
                               a_coeffs, b_coeffs, T)]
    IN  [shape |-> waveform.shape,
         data  |-> [ix \in Idx(waveform.shape) |-> rows[ix[1]][T - ix[2]]]]

lfilter_flattened(waveform, a_coeffs, b_coeffs) ==
    LET B == waveform.shape[1]
        T == waveform.shape[2]
        flat == LFilterRow([i \in 1..(B * T) |->
                               waveform.data[<<(i - 1) \div T, (i - 1) % T>>]],
                           a_coeffs, b_coeffs, B * T)
    IN  [shape |-> waveform.shape,
         data  |-> [ix \in Idx(waveform.shape) |-> flat[ix[1] * T + ix[2] + 1]]]

\* lfilter(waveform, a_coeffs, b_coeffs, clamp=False) on a (B, T) array:
\* every batch element is filtered on its own, forward in time
lfilter(waveform, a_coeffs, b_coeffs) ==
    LET B == waveform.shape[1]
        T == waveform.shape[2]
        rows == [bb \in 0..(B - 1) |->
                    LFilterRow([t \in 1..T |-> waveform.data[<<bb, t - 1>>]],
                               a_coeffs, b_coeffs, T)]
    IN  [shape |-> waveform.shape,
         data  |-> [ix \in Idx(waveform.shape) |-> rows[ix[1]][ix[2] + 1]]]

\* os[:, idx, :]
Column(os, idx) ==
    [shape |-> <<os.shape[1], os.shape[2]>>,
     data  |-> [ix \in Idx(<<os.shape[1], os.shape[2]>>) |->
                  os.data[<<ix[1], ix[2], idx>>]]]

\* the loop over the dimensions of one stream: ai = a[idx].flip(0),
\* bi = [1, 0, ..., 0], out_stream_syn[:, idx, :] = lfilter(os[:, idx, :], ai, bi)
SynStream(os, a) ==
    LET cols == [idx \in 0..(os.shape[3] - 1) |->
                    lfilter(Column(os, idx), Flip(a[idx + 1]),
                            UnitImpulse(Len(a[idx + 1])))]
    IN  [shape |-> os.shape,
         data  |-> [ix \in Idx(os.shape) |-> cols[ix[3]].data[<<ix[1], ix[2]>>]]]

ConcatStreams_reversed(out_syn) == CatLast(Flip(out_syn))

\* torch.cat(out_syn, 1), the streams along the feature axis
ConcatStreams(out_syn) == CatLast(out_syn)

shallow_ar_inference_unchecked(out, stream_sizes, analysis_filts) ==
    IF ~SplitOk(out, stream_sizes)
    THEN [status |-> "ok", syn |-> out]
    ELSE [status |-> "ok",
          syn |-> ConcatStreams([sidx \in 1..Len(stream_sizes) |->
                     SynStream(split_streams(out, stream_sizes)[sidx],
                               get_filt_coefs(analysis_filts[sidx]))])]

\* _shallow_ar_inference: split, filter every stream, concatenate
shallow_ar_inference(out, stream_sizes, analysis_filts) ==
    IF ~SplitOk(out, stream_sizes)
    THEN [status |-> "LayoutMismatchError", syn |-> NoTensor]
    ELSE [status |-> "ok",
          syn |-> ConcatStreams([sidx \in 1..Len(stream_sizes) |->
                     SynStream(split_streams(out, stream_sizes)[sidx],
                               get_filt_coefs(analysis_filts[sidx]))])]

\* preprocess_target of both SAR predictors: the assertion, the split,
\* the analysis filter of every stream, the concatenation
PreprocessTarget(stream_sizes, analysis_filts, y) ==
    IF SumSeq(stream_sizes) # Last(y.shape)
    THEN [status |-> "AssertionError", ys |-> NoTensor]
    ELSE IF ~SplitOk(y, stream_sizes)
    THEN [status |-> "LayoutMismatchError", ys |-> NoTensor]
    ELSE [status |-> "ok",
          ys |-> CatLast([idx \in 1..Len(stream_sizes) |->
                    filt_forward(analysis_filts[idx],
                                 split_streams(y, stream_sizes)[idx])])]

Conv1dResnetSAR_preprocess_target(m, y) ==
    PreprocessTarget(m.stream_sizes, m.analysis_filts, y)

LSTMRNNSAR_preprocess_target(m, y) ==
    PreprocessTarget(m.stream_sizes, m.analysis_filts, y)

\* inference of both SAR predictors on the network's output out
Conv1dResnetSAR_inference(m, out) ==
    shallow_ar_inference(out, m.stream_sizes, m.analysis_filts)

LSTMRNNSAR_inference(m, out) ==
    shallow_ar_inference(out, m.stream_sizes, m.analysis_filts)

-----------------------------------------------------------------------------
(* Specification SpecPost: a SAR predictor and the post-processing of      *)
(* padded batches.  A call on a batch is made together with the same call  *)
(* on a twin batch that differs in the positions pert.                     *)

SarKinds == {"Conv1dResnetSAR", "LSTMRNNSAR"}

\* a learned tap: a multiple of 0.25 between -0.75 and 0.75
Tap(cseed, sidx, d, j) ==
    (One \div 4) * (((5 * cseed + 3 * sidx + 2 * d + j * j) % 7) - 3)

\* TrTimeInvFIRFilter(s, K + 1): s rows of K + 1 taps
NewFilter(size, K, cseed, sidx) ==
    [d \in 1..size |-> [j \in 1..(K + 1) |-> Tap(cseed, sidx, d, j)]]

\* __init__ of the SAR predictors: one filter per (stream size, AR order)
NewSar(kind, out_dim, stream_sizes, ar_orders, cseed) ==
    [kind |-> kind, out_dim |-> out_dim, stream_sizes |-> stream_sizes,
     analysis_filts |->
        [sidx \in 1..Min2(Len(stream_sizes), Len(ar_orders)) |->
            NewFilter(stream_sizes[sidx], ar_orders[sidx], cseed, sidx)]]

SarLayouts == {<<1>>, <<2, 1>>, <<1, 2>>, <<1, 1, 1>>}

\* AR orders of the streams of a layout
OrdersOf(layout, oseed) == [sidx \in 1..Len(layout) |-> (oseed + sidx) % (MaxOrder + 1)]

\* predictors whose network is as wide as the layout, and predictors whose
\* network is one column narrower or wider
SarConfigs ==
    {NewSar(kind, SumSeq(lay), lay, OrdersOf(lay, oseed), oseed) :
        kind \in SarKinds, lay \in SarLayouts, oseed \in 0..MaxOrder}
    \cup
    {NewSar(kind, SumSeq(lay) + dw, lay, OrdersOf(lay, 1), 1) :
        kind \in SarKinds, lay \in SarLayouts, dw \in {-1, 1}}

SarShapes == {<<b, t>> : b \in 1..MaxB, t \in 1..(MaxT + 1)}
SarSeeds == 0..1

\* a trajectory or a raw network output: multiples of 0.04
YGen(shape, seed) ==
    Tensor(shape,
           LAMBDA ix : 40 * (((3 * seed + 5 * ix[1] + 7 * ix[2] * ix[2] + 11 * ix[3]) % 17) - 8))

\* valid lengths of the batch elements, longest first
LengthsOf(bt, lseed) == [b \in 1..bt[1] |-> Max2(1, bt[2] - (lseed + 1) * (b - 1))]

PaddedIn(shape, lengths) == {ix \in Idx(shape) : ix[2] >= lengths[ix[1] + 1]}

\* the twin of a batch: the values at the positions P are changed
Perturb(t, P) ==
    [shape |-> t.shape,
     data  |-> [ix \in DOMAIN t.data |->
                  IF ix \in P THEN t.data[ix] + One + 40 ELSE t.data[ix]]]

\* the positions changed in a twin: one position, or all padded positions
PertsOf(shape, lengths) ==
    {{p} : p \in Idx(shape)} \cup {PaddedIn(shape, lengths)}

otherVars == <<pitch_model, x, net, ret, composerVars, peer, inf>>

\* preprocess_target(y)
PreprocessTargetCall(kind) ==
    /\ sar.call = "none"
    /\ sar.m.kind = kind
    /\ \E bt \in SarShapes, seed \in SarSeeds :
        LET y == YGen(bt \o <<sar.m.out_dim>>, seed)
            r == IF kind = "Conv1dResnetSAR"
                 THEN Conv1dResnetSAR_preprocess_target(sar.m, y)
                 ELSE LSTMRNNSAR_preprocess_target(sar.m, y)
        IN  sar' = [sar EXCEPT !.call = "preprocess_target", !.status = r.status,
                               !.inp = y, !.out = r.ys]
    /\ UNCHANGED otherVars

PreprocessTargetConv1dResnetSAR == PreprocessTargetCall("Conv1dResnetSAR")
PreprocessTargetLSTMRNNSAR == PreprocessTargetCall("LSTMRNNSAR")

\* the filtered target is handed to _shallow_ar_inference with the
\* predictor's own stream sizes and filters
Resynthesize ==
    /\ sar.call = "preprocess_target"
    /\ sar.status = "ok"
    /\ LET r == shallow_ar_inference(sar.out, sar.m.stream_sizes, sar.m.analysis_filts)
       IN  sar' = [sar EXCEPT !.call = "resynthesis", !.status = r.status,
                              !.target = sar.inp, !.inp = sar.out, !.out = r.syn]
    /\ UNCHANGED otherVars

\* inference(x, lengths): the network's output out goes through
\* _shallow_ar_inference
SarInference(kind) ==
    /\ sar.call = "none"
    /\ sar.m.kind = kind
    /\ \E bt \in SarShapes, seed \in SarSeeds :
        LET out == YGen(bt \o <<sar.m.out_dim>>, seed)
            lengths == LengthsOf(bt, seed)
        IN  \E P \in PertsOf(out.shape, lengths) :
              LET out2 == Perturb(out, P)
                  r  == IF kind = "Conv1dResnetSAR"
                        THEN Conv1dResnetSAR_inference(sar.m, out)
                        ELSE LSTMRNNSAR_inference(sar.m, out)
                  r2 == IF kind = "Conv1dResnetSAR"
                        THEN Conv1dResnetSAR_inference(sar.m, out2)
                        ELSE LSTMRNNSAR_inference(sar.m, out2)
              IN  sar' = [sar EXCEPT !.call = "inference", !.status = r.status,
                                     !.inp = out, !.inp2 = out2,
                                     !.out = r.syn, !.out2 = r2.syn,
                                     !.pert = P, !.lengths = lengths]
    /\ UNCHANGED otherVars

InferenceConv1dResnetSAR == SarInference("Conv1dResnetSAR")
InferenceLSTMRNNSAR == SarInference("LSTMRNNSAR")

\* predict_lf0_with_residual on a padded batch and on its twin: the twin
\* differs in the score column and in the raw residual of the frames pert
CorrectPadded ==
    /\ sar.call = "none"
    /\ \E bt \in SarShapes, seed \in SarSeeds :
        LET p == DefaultParams
            r == MaxRaw + 1 + seed
            lengths == LengthsOf(bt, seed)
            in_feats == XGen(bt, seed)
            out_feats == NetGen(bt \o <<OutDim>>, MuBase, 0, r)
        IN  \E P \in PertsOf(bt \o <<1>>, lengths) :
              LET F == {f \o <<c>> : f \in {Front(q) : q \in P}, c \in 0..(InDim - 1)}
                  in2 == Perturb(in_feats, {f \in F : Last(f) = p.in_lf0_idx})
                  out2 == Perturb(out_feats, P)
                  c1 == predict_lf0_with_residual(
                            in_feats, out_feats, p.in_lf0_idx, p.in_lf0_min,
                            p.in_lf0_max, 0, p.out_lf0_mean, p.out_lf0_scale,
                            DefaultResidualF0MaxCent)
                  c2 == predict_lf0_with_residual(
                            in2, out2, p.in_lf0_idx, p.in_lf0_min,
                            p.in_lf0_max, 0, p.out_lf0_mean, p.out_lf0_scale,
                            DefaultResidualF0MaxCent)
              IN  sar' = [sar EXCEPT !.call = "predict_lf0_with_residual",
                                     !.status = "ok",
                                     !.xin = in_feats, !.xin2 = in2,
                                     !.inp = out_feats, !.inp2 = out2,
                                     !.out = c1.lf0_pred, !.out2 = c2.lf0_pred,
                                     !.resid = c1.lf0_residual,
                                     !.resid2 = c2.lf0_residual,
                                     !.pert = P, !.lengths = lengths]
    /\ UNCHANGED otherVars

\* the caller drops the arrays of the call; the predictor stays
DiscardPost ==
    /\ sar.call # "none"
    /\ sar' = [NoSarCall EXCEPT !.m = sar.m]
    /\ UNCHANGED otherVars

InitPost ==
    /\ pitch_model = NewPredictor("ResF0Conv1dResnet", 0, FALSE, FALSE, 1,
                                  DefaultParams, 0)
    /\ x = NoTensor
    /\ net = NoNet
    /\ ret = NoRet
    /\ composer = NoComposer
    /\ energy_model = NoPredictor
    /\ timbre_model = NoPredictor
    /\ pc = "idle"
    /\ loc = NoLoc
    /\ result = NoResult
    /\ peer = NoPeer
    /\ inf = NoInf
    /\ sar \in {[NoSarCall EXCEPT !.m = m] : m \in SarConfigs}

NextPost ==
    \/ PreprocessTargetConv1dResnetSAR
    \/ PreprocessTargetLSTMRNNSAR
    \/ Resynthesize
    \/ InferenceConv1dResnetSAR
    \/ InferenceLSTMRNNSAR
    \/ CorrectPadded
    \/ DiscardPost

SpecPost == InitPost /\ [][NextPost]_vars

-----------------------------------------------------------------------------
(* Mixture resolution (mdn_get_most_probable_sigma_and_mu of nnsvs.mdn)    *)
(* and the inference methods of the predictors                             *)

\* exp at the multiples of 0.5 between -2 and 2, linear in between
ExpKnots == <<135, 223, 368, 607, 1000, 1649, 2718, 4482, 7389>>
ExpStep == One \div 2

Exp(a) ==
    LET lo == -4 * ExpStep
        c  == IF a < lo THEN lo ELSE IF a > -lo THEN -lo ELSE a
        i  == (c - lo) \div ExpStep
        r  == (c - lo) % ExpStep
    IN  IF r = 0 THEN ExpKnots[i + 1]
        ELSE ExpKnots[i + 1] + RDiv((ExpKnots[i + 2] - ExpKnots[i + 1]) * r, ExpStep)

\* the log-weight of component k at (b, t) or, dimension-wise, at (b, t, d)
LogPiAt(log_pi, b, t, k, d) ==
    IF Len(log_pi.shape) = 4 THEN log_pi.data[<<b, t, k, d>>]
    ELSE log_pi.data[<<b, t, k>>]

\* torch.max(log_pi, dim=2).indices: a scan over the components that keeps
\* the first maximum
RECURSIVE MaxComponent(_, _, _, _, _, _)
MaxComponent(log_pi, b, t, d, k, best) ==
    IF k = log_pi.shape[3] THEN best
    ELSE MaxComponent(log_pi, b, t, d, k + 1,
                      IF LogPiAt(log_pi, b, t, k, d) > LogPiAt(log_pi, b, t, best, d)
                      THEN k ELSE best)

\* (sigma, mu) of the most probable component: the gathered mean and the
\* square of the gathered scale exp(log_sigma)
mdn_get_most_probable_sigma_and_mu(log_pi, log_sigma, mu) ==
    LET sh == <<mu.shape[1], mu.shape[2], mu.shape[4]>>
        kmax(ix) == MaxComponent(log_pi, ix[1], ix[2], ix[3], 0, 0)
    IN  [sigma |-> [shape |-> sh,
                    data  |-> [ix \in Idx(sh) |->
                                 LET sc == Exp(log_sigma.data[<<ix[1], ix[2], kmax(ix), ix[3]>>])
                                 IN  FxMul(sc, sc)]],
         mu    |-> [shape |-> sh,
                    data  |-> [ix \in Idx(sh) |->
                                 mu.data[<<ix[1], ix[2], kmax(ix), ix[3]>>]]]]

\* what inference hands back: a pair, a single array, or nothing
Pair(a, b) == [returns |-> "pair", status |-> "ok", first |-> a, second |-> b]
Single(a) == [returns |-> "single", status |-> "ok", first |-> a, second |-> NoTensor]
Nothing(e) == [returns |-> "nothing", status |-> e, first |-> NoTensor,
               second |-> NoTensor]

MixtureInference_resolver_order(log_pi, log_sigma, mu) ==
    LET r == mdn_get_most_probable_sigma_and_mu(log_pi, log_sigma, mu)
    IN  Pair(r.sigma, r.mu)

\* sigma, mu = mdn_get_most_probable_sigma_and_mu(log_pi, log_sigma, mu);
\* return mu, sigma
MixtureInference(log_pi, log_sigma, mu) ==
    LET r == mdn_get_most_probable_sigma_and_mu(log_pi, log_sigma, mu)
    IN  Pair(r.mu, r.sigma)

Conv1dResnet_inference(m, n) ==
    IF m.use_mdn THEN MixtureInference(n.log_pi, n.log_sigma, n.mu)
    ELSE Single(n.mu)

RMDN_inference(m, n) == MixtureInference(n.log_pi, n.log_sigma, n.mu)

MDN_inference(m, n) == MixtureInference(n.log_pi, n.log_sigma, n.mu)

Conv1dResnetMDN_inference(m, n) == MixtureInference(n.log_pi, n.log_sigma, n.mu)

\* (log_pi, log_sigma, mu), _ = self(x, lengths) or self(x, lengths)[0]
ResF0Inference(m, f) ==
    IF f.status # "ok" THEN Nothing(f.status)
    ELSE IF m.use_mdn THEN MixtureInference(f.log_pi, f.log_sigma, f.mu)
    ELSE Single(f.mu)

ResF0Conv1dResnet_inference(m, in_feats, n) ==
    ResF0Inference(m, ResF0Conv1dResnet_forward(m, in_feats, n))

ResSkipF0FFConvLSTM_inference(m, in_feats, n) ==
    ResF0Inference(m, ResSkipF0FFConvLSTM_forward(m, in_feats, n))

\* return self(x, lengths)[0]
ResF0VariancePredictor_inference(m, in_feats, n) ==
    LET f == ResF0VariancePredictor_forward(m, in_feats, n)
    IN  IF f.status # "ok" THEN Nothing(f.status) ELSE Single(f.mu)

MixtureKinds == {"RMDN", "MDN", "Conv1dResnetMDN"}
SwitchableKinds == {"Conv1dResnet", "ResF0Conv1dResnet", "ResSkipF0FFConvLSTM"}
InferenceKinds == MixtureKinds \cup SwitchableKinds \cup {"ResF0VariancePredictor"}

\* prediction_type(): fixed for the mixture classes, by use_mdn for the
\* classes with the switch, the base class's for ResF0VariancePredictor
prediction_type(m) ==
    IF m.kind \in MixtureKinds THEN "PROBABILISTIC"
    ELSE IF m.kind \in SwitchableKinds
    THEN (IF m.use_mdn THEN "PROBABILISTIC" ELSE "DETERMINISTIC")
    ELSE "DETERMINISTIC"

\* the inference method of the predictor's class
PredictorInference(m, in_feats, n) ==
    CASE m.kind = "Conv1dResnet" -> Conv1dResnet_inference(m, n)
      [] m.kind = "RMDN" -> RMDN_inference(m, n)
      [] m.kind = "MDN" -> MDN_inference(m, n)
      [] m.kind = "Conv1dResnetMDN" -> Conv1dResnetMDN_inference(m, n)
      [] m.kind = "ResF0Conv1dResnet" -> ResF0Conv1dResnet_inference(m, in_feats, n)
      [] m.kind = "ResSkipF0FFConvLSTM" -> ResSkipF0FFConvLSTM_inference(m, in_feats, n)
      [] m.kind = "ResF0VariancePredictor" ->
             ResF0VariancePredictor_inference(m, in_feats, n)

-----------------------------------------------------------------------------
(* Specification SpecInference: inference of one predictor on a batch *)

\* a predictor with an MDN layer option: the residual-F0 attributes are
\* those of the constructor, dim_wise is the MDN layer's
NewMixturePredictor(kind, use_mdn, num_gaussians, dim_wise, out_lf0_idx) ==
    LET pm == NewPredictor(kind, OutDim, FALSE, use_mdn, num_gaussians,
                           DefaultParams, out_lf0_idx)
    IN  [f \in DOMAIN pm \cup {"dim_wise"} |->
            IF f = "dim_wise" THEN dim_wise ELSE pm[f]]

IsResF0(kind) == kind \in Kinds

InferenceConfigs ==
    {NewMixturePredictor(kind, mdn, g, dw, oidx) :
        kind \in InferenceKinds, mdn \in BOOLEAN, g \in 1..MaxGaussians,
        dw \in BOOLEAN, oidx \in {0, 1}}

ValidInferencePredictor(m) ==
    /\ m.kind \in MixtureKinds => m.use_mdn
    /\ m.kind = "ResF0VariancePredictor" => ~m.use_mdn
    /\ ~m.use_mdn => (m.num_gaussians = 1 /\ ~m.dim_wise)
    /\ ~IsResF0(m.kind) => m.out_lf0_idx = 0

\* what the network and its MDN layer produce: log-weights with ties,
\* log-scales between -1 and 1, means that name their position
MixtureOutputs(m, bt, seed) ==
    LET rawcol == IF IsResF0(m.kind) THEN m.out_lf0_idx ELSE -1
    IN  IF m.use_mdn
        THEN [log_pi |->
                 Tensor(IF m.dim_wise THEN bt \o <<m.num_gaussians, m.out_dim>>
                        ELSE bt \o <<m.num_gaussians>>,
                        LAMBDA ix : -One * (((seed + ix[1] + 2 * ix[2]) * (ix[3] + 1)
                                             + (IF Len(ix) = 4 THEN ix[4] ELSE 0)) % 3)),
              log_sigma |->
                 Tensor(bt \o <<m.num_gaussians, m.out_dim>>,
                        LAMBDA ix : ExpStep * (((seed + ix[1] + ix[2] + 2 * ix[3] + ix[4]) % 5) - 2)),
              mu |-> NetGen(bt \o <<m.num_gaussians, m.out_dim>>, MuBase, rawcol, seed)]
        ELSE [log_pi |-> NoTensor, log_sigma |-> NoTensor,
              mu |-> NetGen(bt \o <<m.out_dim>>, MuBase, rawcol, seed)]

NoInfCall ==
    [call |-> "none", status |-> "none", returns |-> "none", m |-> NoPredictor,
     x |-> NoTensor, net |-> NoNet, log_pi |-> NoTensor, log_sigma |-> NoTensor,
     mu |-> NoTensor, first |-> NoTensor, second |-> NoTensor,
     prediction_type |-> "none"]

inferenceOthers == <<pitch_model, x, net, ret, composerVars, peer, sar>>

\* model.inference(x, lengths) and model.prediction_type()
InferenceOf(kind) ==
    /\ inf.call = "none"
    /\ inf.m.kind = kind
    /\ \E bt \in Shapes, seed \in 0..MaxSeed :
        LET in_feats == XGen(bt, seed)
            n == NetCall(inf.m, in_feats, MixtureOutputs(inf.m, bt, seed),
                         DefaultResidualF0MaxCent)
            f == IF IsResF0(kind) THEN PredictorForward(inf.m, in_feats, n)
                 ELSE [log_pi |-> n.log_pi, log_sigma |-> n.log_sigma, mu |-> n.mu]
            r == PredictorInference(inf.m, in_feats, n)
        IN  inf' = [inf EXCEPT !.call = "inference", !.status = r.status,
                               !.returns = r.returns, !.x = in_feats, !.net = n,
                               !.log_pi = f.log_pi, !.log_sigma = f.log_sigma,
                               !.mu = f.mu, !.first = r.first, !.second = r.second,
                               !.prediction_type = prediction_type(inf.m)]
    /\ UNCHANGED inferenceOthers

InferenceConv1dResnet == InferenceOf("Conv1dResnet")
InferenceRMDN == InferenceOf("RMDN")
InferenceMDN == InferenceOf("MDN")
InferenceConv1dResnetMDN == InferenceOf("Conv1dResnetMDN")
InferenceResF0Conv1dResnet == InferenceOf("ResF0Conv1dResnet")
InferenceResSkipF0FFConvLSTM == InferenceOf("ResSkipF0FFConvLSTM")
InferenceResF0VariancePredictor == InferenceOf("ResF0VariancePredictor")

\* the caller drops what inference returned; the predictor stays
DiscardInference ==
    /\ inf.call # "none"
    /\ inf' = [NoInfCall EXCEPT !.m = inf.m]
    /\ UNCHANGED inferenceOthers

InitInference ==
    /\ pitch_model = NewPredictor("ResF0Conv1dResnet", 0, FALSE, FALSE, 1,
                                  DefaultParams, 0)
    /\ x = NoTensor
    /\ net = NoNet
    /\ ret = NoRet
    /\ composer = NoComposer
    /\ energy_model = NoPredictor
    /\ timbre_model = NoPredictor
    /\ pc = "idle"
    /\ loc = NoLoc
    /\ result = NoResult
    /\ peer = NoPeer
    /\ sar = NoSarCall
    /\ inf \in {[NoInfCall EXCEPT !.m = m] :
                   m \in {c \in InferenceConfigs : ValidInferencePredictor(c)}}

NextInference ==
    \/ InferenceConv1dResnet
    \/ InferenceRMDN
    \/ InferenceMDN
    \/ InferenceConv1dResnetMDN
    \/ InferenceResF0Conv1dResnet
    \/ InferenceResSkipF0FFConvLSTM
    \/ InferenceResF0VariancePredictor
    \/ DiscardInference

SpecInference == InitInference /\ [][NextInference]_vars

-----------------------------------------------------------------------------
(* Properties of the correction, checked under SpecResF0 *)

ReturnedOk == ret.call # "none" /\ ret.status = "ok"
ForwardOk == ret.call = "forward" /\ ret.status = "ok"

\* positions (b, t, k) of a mixture output, (b, t, 0) of a plain one
ResidualPositions == DOMAIN ret.lf0_residual.data

\* the raw residual the network produced at a position of lf0_residual
RawOf(ix) ==
    IF Len(net.mu.shape) = 4
    THEN net.mu.data[ix \o <<pitch_model.out_lf0_idx>>]
    ELSE net.mu.data[Front(ix) \o <<pitch_model.out_lf0_idx>>]

\* the corrected value found in the returned output at a position
CorrectedOf(ix) ==
    IF Len(ret.mu.shape) = 4
    THEN ret.mu.data[ix \o <<pitch_model.out_lf0_idx>>]
    ELSE ret.mu.data[Front(ix) \o <<pitch_model.out_lf0_idx>>]

\* the score value of the frame of a position
ScoreOf(ix) == net.x.data[<<ix[1], ix[2], pitch_model.in_lf0_idx>>]

\* the arithmetic of the claims, written out independently of the model
MaxRatioOf(cents) == RDiv(cents * Ln2, CentsPerOctave)
ScoreDenormOf(ix) ==
    RDiv(ScoreOf(ix) * (pitch_model.in_lf0_max - pitch_model.in_lf0_min), One)
        + pitch_model.in_lf0_min
RenormOf(v) == RDiv((v - pitch_model.out_lf0_mean) * One, pitch_model.out_lf0_scale)

\* C1: every returned residual is within +-max_ratio, max_ratio =
\* residual_f0_max_cent * ln2 / 1200, and the corrected log-F0 lies between
\* the normalizations of (score - max_ratio) and (score + max_ratio).
C1_ResidualBounded ==
    ReturnedOk =>
        \A ix \in ResidualPositions :
            /\ Abs(ret.lf0_residual.data[ix]) <= MaxRatioOf(net.cents)
            /\ RenormOf(ScoreDenormOf(ix) - MaxRatioOf(net.cents))
                   <= ret.lf0_pred.data[ix]
            /\ ret.lf0_pred.data[ix]
                   <= RenormOf(ScoreDenormOf(ix) + MaxRatioOf(net.cents))

\* a huge raw residual saturates the bound exactly (cents other than 600)
C1_Witness ==
    /\ ret.call = "predict_lf0_with_residual"
    /\ ret.status = "ok"
    /\ net.cents # DefaultResidualF0MaxCent
    /\ \E ix \in ResidualPositions :
          /\ RawOf(ix) = RawHuge
          /\ ret.lf0_residual.data[ix] = MaxRatioOf(net.cents)

\* C2: with 600 cents, a raw residual of 0 gives a bounded residual of 0
\* and a corrected pitch equal to the de-normalized score re-normalized
\* with the output statistics.
C2_ZeroResidual ==
    (ReturnedOk /\ net.cents = 600) =>
        \A ix \in ResidualPositions :
            RawOf(ix) = 0 =>
                /\ ret.lf0_residual.data[ix] = 0
                /\ ret.lf0_pred.data[ix] = RenormOf(ScoreDenormOf(ix))
                /\ ForwardOk => CorrectedOf(ix) = RenormOf(ScoreDenormOf(ix))

C2_Witness ==
    /\ ForwardOk
    /\ net.cents = 600
    /\ \E ix \in ResidualPositions :
          /\ RawOf(ix) = 0
          /\ ScoreOf(ix) = One \div 2
          /\ CorrectedOf(ix) = RenormOf(ScoreDenormOf(ix))
          /\ CorrectedOf(ix) # 0

\* C3: forward writes column out_lf0_idx only: every other column, the
\* log-weights and the log-scales keep the network's values, and the input
\* batch is the batch that was passed in.
C3_OnlyLf0ColumnWritten ==
    ForwardOk =>
        /\ ret.mu.shape = net.mu.shape
        /\ \A ix \in DOMAIN ret.mu.data :
              Last(ix) # pitch_model.out_lf0_idx =>
                  ret.mu.data[ix] = net.mu.data[ix]
        /\ ret.log_pi = net.log_pi
        /\ ret.log_sigma = net.log_sigma
        /\ x = net.x

\* a mixture forward that did change column out_lf0_idx = 1
C3_Witness ==
    /\ ForwardOk
    /\ pitch_model.use_mdn
    /\ pitch_model.out_lf0_idx = 1
    /\ \E ix \in DOMAIN ret.mu.data :
          Last(ix) = 1 /\ ret.mu.data[ix] # net.mu.data[ix]

\* C4 (as claimed): for every K >= 1 a probabilistic forward with valid
\* indices applies the correction to every component k:
\* mu[b, t, k, out_lf0_idx] = (score_denorm[b, t] + max_ratio * tanh(raw)
\*                             - out_lf0_mean) / out_lf0_scale.
C4_EveryComponentCorrected ==
    (/\ ret.call = "forward"
     /\ pitch_model.use_mdn
     /\ Lf0IndexOk(net.x, net.mu, pitch_model.in_lf0_idx, pitch_model.out_lf0_idx))
    => /\ ret.status = "ok"
       /\ \A ix \in Idx(Front(net.mu.shape)) :
             CorrectedOf(ix) =
                 RenormOf(ScoreDenormOf(ix)
                          + RDiv(MaxRatioOf(600) * Tanh(RawOf(ix)), One))

-----------------------------------------------------------------------------
(* Properties of the composer, checked under Spec *)

ComposeOk == pc = "idle" /\ result.status = "ok"
Called == composer.state = "built" /\ (pc # "idle" \/ result.call # "none")

Ess == composer.energy_stream_sizes
Pss == composer.pitch_stream_sizes
Tss == composer.timbre_stream_sizes

\* the (b, t) positions of the batch
Frames == Idx(<<x.shape[1], x.shape[2]>>)

\* width of the n-th pitch sub-stream, 0 when the layout has fewer
PWidth(n) == IF n <= Len(Pss) THEN Pss[n] ELSE 0

\* the corrected log-F0 of a frame, from the composer's parameters
ComposerCorrected(bt) ==
    LET score == net.x.data[bt \o <<composer.in_lf0_idx>>]
        raw   == net.mu.data[bt \o <<pitch_model.ctor.out_lf0_idx>>]
        den   == RDiv(score * (composer.in_lf0_max - composer.in_lf0_min), One)
                   + composer.in_lf0_min
        res   == RDiv(RDiv(600 * Ln2, 1200) * Tanh(raw), One)
    IN  RDiv((den + res - composer.out_lf0_mean) * One, composer.out_lf0_scale)

\* C5: the output is energy[0] + sum(timbre) + sum(pitch) wide and the
\* pitch predictor's first sub-stream, the corrected log-F0, starts at
\* column energy[0] + timbre[0]; for 1 | 179, 15 | 1, 1, 3 the width is 200
\* and column 180 is the corrected log-F0.
C5_WidthAndLf0Column ==
    ComposeOk =>
        /\ Last(result.out.shape) = Ess[1] + SumSeq(Tss) + SumSeq(Pss)
        /\ \A bt \in Frames :
              /\ \A j \in 0..(Pss[1] - 1) :
                    result.out.data[bt \o <<Ess[1] + Tss[1] + j>>]
                        = ret.mu.data[bt \o <<j>>]
              /\ pitch_model.out_lf0_idx < Pss[1] =>
                    result.out.data[bt \o <<Ess[1] + Tss[1] + pitch_model.out_lf0_idx>>]
                        = ComposerCorrected(bt)
        /\ (/\ Ess = <<1>> /\ Tss = <<179, 15>> /\ Pss = <<1, 1, 3>>
            /\ pitch_model.out_lf0_idx = 0)
           => /\ Last(result.out.shape) = 200
              /\ \A bt \in Frames :
                    result.out.data[bt \o <<180>>] = ComposerCorrected(bt)

\* the scenario of the recipe: score 0.5, raw residual 0, default statistics
C5_Witness ==
    /\ ComposeOk
    /\ Ess = <<1>> /\ Tss = <<179, 15>> /\ Pss = <<1, 1, 3>>
    /\ pitch_model.out_lf0_idx = 0
    /\ composer.in_lf0_min = DefaultInLf0Min
    /\ \E bt \in Frames :
          /\ net.x.data[bt \o <<composer.in_lf0_idx>>] = One \div 2
          /\ net.mu.data[bt \o <<0>>] = 0
          /\ result.out.data[bt \o <<180>>]
                = RDiv((RDiv(500 * (6491 - 5394), 1000) + 5394 - 5953) * 1000, 234)

\* the column of the composed vector, read from the predictors' outputs in
\* the order [energy, envelope, lf0, vuv, aperiodicity, vibrato, flags]
ExpectedColumn(bt, c) ==
    LET o1 == Ess[1]
        o2 == o1 + Tss[1]
        o3 == o2 + PWidth(1)
        o4 == o3 + PWidth(2)
        o5 == o4 + Tss[2]
        o6 == o5 + PWidth(3)
    IN  IF c < o1 THEN loc.energy_out.data[bt \o <<c>>]
        ELSE IF c < o2 THEN loc.timbre_out.data[bt \o <<c - o1>>]
        ELSE IF c < o3 THEN ret.mu.data[bt \o <<c - o2>>]
        ELSE IF c < o4 THEN ret.mu.data[bt \o <<PWidth(1) + c - o3>>]
        ELSE IF c < o5 THEN loc.timbre_out.data[bt \o <<Tss[1] + c - o4>>]
        ELSE IF c < o6 THEN ret.mu.data[bt \o <<PWidth(1) + PWidth(2) + c - o5>>]
        ELSE ret.mu.data[bt \o <<PWidth(1) + PWidth(2) + PWidth(3) + c - o6>>]

\* C6: for 2, 3 and 4 pitch sub-streams the output is the concatenation
\* [energy + envelope, lf0, vuv, aperiodicity, vibrato, vibrato flags],
\* every sub-stream once, with the values its predictor returned.
C6_StreamOrder ==
    ComposeOk =>
        /\ Len(Pss) \in {2, 3, 4}
        /\ result.out.shape =
              <<x.shape[1], x.shape[2],
                Ess[1] + Tss[1] + Tss[2] + PWidth(1) + PWidth(2) + PWidth(3) + PWidth(4)>>
        /\ \A ix \in DOMAIN result.out.data :
              result.out.data[ix] = ExpectedColumn(Front(ix), Last(ix))

\* four pitch sub-streams, the vibrato flags in the last column
C6_Witness ==
    /\ ComposeOk
    /\ Len(Pss) = 4
    /\ \E bt \in Frames :
          result.out.data[bt \o <<Last(result.out.shape) - 1>>]
              = ret.mu.data[bt \o <<SumSeq(Pss) - 1>>]

\* C7: only the first energy sub-stream reaches the output: it is in the
\* leading columns, directly in front of the spectral envelope, and no
\* value of a later energy sub-stream occurs anywhere in the output.
C7_EnergyLevelOnly ==
    ComposeOk =>
        \A bt \in Frames :
            /\ \A c \in 0..(Ess[1] - 1) :
                  result.out.data[bt \o <<c>>] = loc.energy_out.data[bt \o <<c>>]
            /\ \A j \in 0..(Tss[1] - 1) :
                  result.out.data[bt \o <<Ess[1] + j>>] = loc.timbre_out.data[bt \o <<j>>]
            /\ \A c \in Ess[1]..(Last(loc.energy_out.shape) - 1) :
                  \A ix \in DOMAIN result.out.data :
                      result.out.data[ix] # loc.energy_out.data[bt \o <<c>>]

\* an energy predictor with a second sub-stream that is dropped
C7_Witness ==
    /\ ComposeOk
    /\ Len(Ess) = 2
    /\ Ess[1] = 2
    /\ Last(loc.energy_out.shape) = 3
    /\ result.out.data[<<0, 0, 1>>] = loc.energy_out.data[<<0, 0, 1>>]

ComposerParamsIn(pm) ==
    /\ pm.in_lf0_idx = composer.in_lf0_idx
    /\ pm.in_lf0_min = composer.in_lf0_min
    /\ pm.in_lf0_max = composer.in_lf0_max
    /\ pm.out_lf0_mean = composer.out_lf0_mean
    /\ pm.out_lf0_scale = composer.out_lf0_scale

\* C8: once a compose call has been made the pitch predictor holds the
\* composer's in_lf0_idx, in_lf0_min, in_lf0_max, out_lf0_mean and
\* out_lf0_scale, and the out_lf0_idx it was constructed with.
C8_ParamsAdopted ==
    Called =>
        /\ ComposerParamsIn(pitch_model)
        /\ pitch_model.out_lf0_idx = pitch_model.ctor.out_lf0_idx

\* a predictor built with other statistics and another out_lf0_idx
C8_Witness ==
    /\ ComposeOk
    /\ pitch_model.ctor.in_lf0_min # composer.in_lf0_min
    /\ pitch_model.ctor.out_lf0_scale # composer.out_lf0_scale
    /\ pitch_model.ctor.out_lf0_idx # composer.out_lf0_idx
    /\ pitch_model.in_lf0_min = composer.in_lf0_min
    /\ pitch_model.out_lf0_idx = 0

C10_MismatchFailsAtConstruction ==
    (/\ composer.state # "none"
     /\ \/ energy_model.out_dim # SumSeq(Ess)
        \/ pitch_model.out_dim # SumSeq(Pss)
        \/ timbre_model.out_dim # SumSeq(Tss))
    => composer.state = "AssertionError"

-----------------------------------------------------------------------------
(* Properties of the shallow-AR filters and of padded batches, checked     *)
(* under SpecPost                                                          *)

SarOk == sar.call \in {"inference", "resynthesis"} /\ sar.status = "ok"

\* the stream a column of the flat layout belongs to, and its first column
StreamOf(g) ==
    CHOOSE sidx \in 1..Len(sar.m.stream_sizes) :
        /\ SumSeq(SubSeq(sar.m.stream_sizes, 1, sidx - 1)) <= g
        /\ g < SumSeq(SubSeq(sar.m.stream_sizes, 1, sidx))
StreamStart(sidx) == SumSeq(SubSeq(sar.m.stream_sizes, 1, sidx - 1))

\* the learned row of taps of a column, highest lag first
RowOf(g) == sar.m.analysis_filts[StreamOf(g)][g - StreamStart(StreamOf(g)) + 1]
OrderOf(g) == Len(RowOf(g)) - 1

\* C11: preprocess_target and the inference of a SAR predictor, given an
\* array whose width differs from the sum of the stream sizes, end with an
\* error and hand back no array.
C11_WidthMismatchFails ==
    (/\ sar.call \in {"preprocess_target", "inference", "resynthesis"}
     /\ Last(sar.inp.shape) # SumSeq(sar.m.stream_sizes))
    => /\ sar.status \in {"AssertionError", "LayoutMismatchError"}
       /\ sar.out = NoTensor

\* an inference whose network is one column wider than the layout
C11_Witness ==
    /\ sar.call = "inference"
    /\ Last(sar.inp.shape) = SumSeq(sar.m.stream_sizes) + 1
    /\ sar.status = "LayoutMismatchError"
    /\ sar.out = NoTensor

\* C12: the synthesis of the analysed trajectory, with the same stream
\* sizes and filters, is the trajectory itself at every (b, t, d).
C12_RoundTrip ==
    sar.call = "resynthesis" =>
        /\ sar.status = "ok"
        /\ sar.out.shape = sar.target.shape
        /\ \A ix \in DOMAIN sar.target.data : sar.out.data[ix] = sar.target.data[ix]

\* three frames, a stream of the highest order, an analysis that changed
\* the trajectory
C12_Witness ==
    /\ sar.call = "resynthesis"
    /\ sar.target.shape[2] >= 3
    /\ \E g \in 0..(Last(sar.target.shape) - 1) :
          /\ OrderOf(g) = MaxOrder
          /\ \E k \in 1..MaxOrder : RowOf(g)[k] # 0
          /\ \E b \in 0..(sar.target.shape[1] - 1) :
                sar.inp.data[<<b, 2, g>>] # sar.target.data[<<b, 2, g>>]
    /\ sar.out = sar.target

\* C17: the output has the shape of the input, and column g, in place,
\* satisfies the recursion of its own row of taps: with a[k] the tap of
\* lag k (the row time-reversed, a[0] = 1) and numerator [1, 0, ..., 0],
\* out[b, t, g] = in[b, t, g] - sum_{k = 1..K} a[k] * out[b, t - k, g].
C17_StreamsFilteredInPlace ==
    SarOk =>
        /\ sar.out.shape = sar.inp.shape
        /\ \A ix \in DOMAIN sar.out.data :
              LET row == RowOf(ix[3])
                  K   == Len(row) - 1
                  n   == Min2(K, ix[2])
              IN  sar.out.data[ix] =
                      sar.inp.data[ix]
                      - SumSeq([k \in 1..n |->
                                  RDiv(row[K + 1 - k]
                                       * sar.out.data[<<ix[1], ix[2] - k, ix[3]>>], One)])

\* two streams of different orders; the last column is filtered with taps
\* that differ from those of the first column
C17_Witness ==
    /\ sar.call = "inference"
    /\ sar.status = "ok"
    /\ Len(sar.m.stream_sizes) >= 2
    /\ sar.inp.shape[2] >= 3
    /\ LET g == Last(sar.inp.shape) - 1
       IN  /\ OrderOf(g) >= 1
           /\ OrderOf(g) # OrderOf(0)
           /\ sar.out.data[<<0, 2, g>>] # sar.inp.data[<<0, 2, g>>]

\* C18: the output at (b, t, d) is the same in the twin call unless the
\* twin's input differs at (b, t', d) for some t' <= t: no other column,
\* stream or batch element has any influence.
C18_IndependentAcrossColumns ==
    (sar.call = "inference" /\ sar.status = "ok") =>
        \A ix \in DOMAIN sar.out.data :
            (\A p \in sar.pert : ~(p[1] = ix[1] /\ p[3] = ix[3] /\ p[2] <= ix[2]))
                => sar.out.data[ix] = sar.out2.data[ix]

\* a change in the first frame that reaches the later frames of its own
\* column, in a batch of two elements and several columns
C18_Witness ==
    /\ sar.call = "inference"
    /\ sar.status = "ok"
    /\ sar.inp.shape[1] >= 2
    /\ sar.inp.shape[2] >= 2
    /\ sar.inp.shape[3] >= 2
    /\ \E p \in sar.pert :
          /\ sar.pert = {p}
          /\ p[2] = 0
          /\ sar.out.data[<<p[1], 1, p[3]>>] # sar.out2.data[<<p[1], 1, p[3]>>]
    /\ \A ix \in DOMAIN sar.out.data :
          (\A p \in sar.pert : ~(p[1] = ix[1] /\ p[3] = ix[3]))
              => sar.out.data[ix] = sar.out2.data[ix]

\* C19: when the twin differs in padded positions only (t' >= length[b']),
\* the synthesis and the pitch correction (corrected value and residual)
\* agree at every valid position t < length[b].
C19_NoLeakFromPadding ==
    (/\ sar.call \in {"inference", "predict_lf0_with_residual"}
     /\ sar.status = "ok"
     /\ \A p \in sar.pert : p[2] >= sar.lengths[p[1] + 1])
    => /\ \A ix \in DOMAIN sar.out.data :
             ix[2] < sar.lengths[ix[1] + 1] => sar.out.data[ix] = sar.out2.data[ix]
       /\ \A ix \in DOMAIN sar.resid.data :
             ix[2] < sar.lengths[ix[1] + 1] => sar.resid.data[ix] = sar.resid2.data[ix]

\* all padded positions of a batch changed, with an effect on the padded
\* outputs and none on the valid ones
C19_Witness ==
    /\ sar.call = "inference"
    /\ sar.status = "ok"
    /\ sar.pert # {}
    /\ sar.pert = PaddedIn(sar.inp.shape, sar.lengths)
    /\ \E p \in sar.pert : sar.out.data[p] # sar.out2.data[p]
    /\ \E ix \in DOMAIN sar.out.data :
          /\ ix[2] < sar.lengths[ix[1] + 1]
          /\ ix[2] >= 1
          /\ OrderOf(ix[3]) >= 1
          /\ sar.out.data[ix] # sar.inp.data[ix]
          /\ sar.out.data[ix] = sar.out2.data[ix]

-----------------------------------------------------------------------------
(* Properties of inference, checked under SpecInference *)

InferenceReturned == inf.call = "inference"

\* the predictor has a mixture output
IsProbabilistic(m) ==
    m.kind \in MixtureKinds \/ (m.kind \in SwitchableKinds /\ m.use_mdn)

\* C13 (as claimed): inference of a predictor with a mixture output returns
\* the pair (mean, variance), the resolver's (variance, mean) swapped;
\* inference of any other predictor returns a single array; and
\* prediction_type() is PROBABILISTIC exactly when a pair is returned.
C13_InferenceReturnsMeanVariance ==
    InferenceReturned =>
        /\ IsProbabilistic(inf.m) =>
              /\ inf.returns = "pair"
              /\ inf.first =
                    mdn_get_most_probable_sigma_and_mu(inf.log_pi, inf.log_sigma, inf.mu).mu
              /\ inf.second =
                    mdn_get_most_probable_sigma_and_mu(inf.log_pi, inf.log_sigma, inf.mu).sigma
        /\ ~IsProbabilistic(inf.m) => inf.returns = "single"
        /\ (inf.prediction_type = "PROBABILISTIC") <=> (inf.returns = "pair")

\* the log-weight the resolver saw for component k at position ix = (b, t, d)
SeenLogPi(ix, k) == LogPiAt(inf.log_pi, ix[1], ix[2], k, ix[3])

\* k is the first component of maximal log-weight at ix
FirstMaximal(ix, k) ==
    /\ \A j \in 0..(inf.mu.shape[3] - 1) : SeenLogPi(ix, j) <= SeenLogPi(ix, k)
    /\ \A j \in 0..(k - 1) : SeenLogPi(ix, j) < SeenLogPi(ix, k)

\* C14: at every position the returned mean and variance are the mean and
\* the squared scale of the first component of maximal log-weight.
C14_MostProbableComponent ==
    (InferenceReturned /\ inf.returns = "pair") =>
        \A ix \in DOMAIN inf.first.data :
            \E k \in 0..(inf.mu.shape[3] - 1) :
                /\ FirstMaximal(ix, k)
                /\ inf.first.data[ix] = inf.mu.data[<<ix[1], ix[2], k, ix[3]>>]
                /\ inf.second.data[ix] =
                      RDiv(Exp(inf.log_sigma.data[<<ix[1], ix[2], k, ix[3]>>])
                           * Exp(inf.log_sigma.data[<<ix[1], ix[2], k, ix[3]>>]), One)

\* a mixture of several components with a tie that the first component
\* wins at one position and a later component chosen at another
C14_Witness ==
    /\ InferenceReturned
    /\ inf.returns = "pair"
    /\ inf.mu.shape[3] >= 2
    /\ \E ix \in DOMAIN inf.first.data :
          /\ SeenLogPi(ix, 0) = SeenLogPi(ix, 1)
          /\ FirstMaximal(ix, 0)
          /\ inf.first.data[ix] = inf.mu.data[<<ix[1], ix[2], 0, ix[3]>>]
          /\ inf.first.data[ix] # inf.mu.data[<<ix[1], ix[2], 1, ix[3]>>]
    /\ \E ix \in DOMAIN inf.first.data :
          /\ ~FirstMaximal(ix, 0)
          /\ inf.first.data[ix] # inf.mu.data[<<ix[1], ix[2], 0, ix[3]>>]

-----------------------------------------------------------------------------
(* Properties of the order of the invocations, checked under SpecAnyOrder *)

\* what the sequential order returns for the batch of the running call
SequentialResult ==
    SequentialForward(composer, energy_model, pitch_model, timbre_model,
                      x, loc.seed)

\* C15: whatever the order of the three invocations, a call that returns
\* returns the vector and the residual of the order energy, pitch, timbre,
\* and a call fails exactly when the sequential order fails.
C15_OrderIndependent ==
    /\ pc = "EPT" => SequentialResult.status = "ok"
    /\ (pc = "idle" /\ result.call = "forward" /\ result.status = "ok") =>
          /\ SequentialResult.status = "ok"
          /\ result.out = SequentialResult.out
          /\ result.lf0_residual = SequentialResult.lf0_residual
    /\ (pc = "idle" /\ result.call = "forward" /\ result.status # "ok") =>
          SequentialResult.status # "ok"

\* a call in which the timbre predictor returned first and the energy
\* predictor last, with layouts of the same total width
C15_Witness ==
    /\ pc = "idle"
    /\ result.call = "forward"
    /\ result.status = "ok"
    /\ loc.order = <<"T", "P", "E">>
    /\ SumSeq(composer.energy_stream_sizes) = SumSeq(composer.timbre_stream_sizes)
    /\ result.out = SequentialResult.out

-----------------------------------------------------------------------------
(* Properties of the unpacking of the splits, checked under Spec *)

ForwardLeft == pc = "idle" /\ result.call = "forward"

ArityOk == Len(Pss) \in {2, 3, 4} /\ Len(Tss) = 2

\* C20: a call returns a vector only when the pitch layout has 2, 3 or 4
\* sub-streams and the timbre layout 2, and the vector then holds every
\* sub-stream; with any other arity the call leaves with an error and returns
\* neither a vector nor a residual.
C20_ArityErrors ==
    ForwardLeft =>
        /\ result.status = "ok" =>
              /\ ArityOk
              /\ result.out.shape[3] = Ess[1] + SumSeq(Pss) + SumSeq(Tss)
        /\ ~ArityOk =>
              /\ result.status \notin {"ok", "none"}
              /\ result.out = NoTensor
              /\ result.lf0_residual = NoTensor

\* a call with five pitch sub-streams, left after the pitch predictor returned
C20_Witness ==
    /\ ForwardLeft
    /\ Len(Pss) = 5
    /\ ret.call = "forward"
    /\ ret.status = "ok"
    /\ result.status = "ValueError"
    /\ result.out = NoTensor

-----------------------------------------------------------------------------
(* Properties of composers that share a pitch predictor, checked under     *)
(* SpecShared                                                              *)

\* C16 (as claimed): a call's result depends only on its batch and on the
\* parameters of the composer that made it: the log-F0 column of every
\* returned vector is the correction computed with that composer's
\* parameters, whatever the other composer does in between.
C16_NoSharedState ==
    ComposeOk =>
        \A bt \in Frames :
            result.out.data[bt \o <<Ess[1] + Tss[1]>>] = ComposerCorrected(bt)

-----------------------------------------------------------------------------
(* Properties of the construction of the composer, checked under Spec *)

Constructed == composer.state # "none"

\* the declared width of a predictor is the sum of its stream sizes
WidthsAgree(model, stream_sizes) == model.out_dim = SumSeq(stream_sizes)

\* C21: the width check is applied only to a predictor that exposes out_dim:
\* with predictors that do not expose it the composer is built for every
\* layout and every width, and with predictors that expose it the composer
\* is built exactly when each out_dim is the sum of the predictor's stream
\* sizes.
C21_CheckOnlyWithOutDim ==
    Constructed =>
        /\ (~energy_model.has_out_dim /\ ~pitch_model.has_out_dim
              /\ ~timbre_model.has_out_dim) => composer.state = "built"
        /\ (energy_model.has_out_dim /\ pitch_model.has_out_dim
              /\ timbre_model.has_out_dim) =>
                 (composer.state = "built" <=>
                     /\ WidthsAgree(energy_model, Ess)
                     /\ WidthsAgree(pitch_model, Pss)
                     /\ WidthsAgree(timbre_model, Tss))
        /\ composer.state \in {"built", "AssertionError"}

\* a composer built around a pitch predictor that is one column short and
\* does not expose out_dim
C21_Witness ==
    /\ composer.state = "built"
    /\ ~pitch_model.has_out_dim
    /\ ~WidthsAgree(pitch_model, Pss)
    /\ WidthsAgree(energy_model, Ess)

-----------------------------------------------------------------------------
(* Properties of the residual bound of a composed call, checked under Spec *)

\* 600 * ln2 / 1200
DefaultMaxRatio == MaxRatioOf(DefaultResidualF0MaxCent)

Within(t, bound) == \A ix \in DOMAIN t.data : Abs(t.data[ix]) <= bound

\* C22: the pitch correction a predictor makes uses the default bound of 600
\* cents: whatever the predictor class, the parameters it was constructed
\* with and the parameters the composer propagated, the residual the
\* predictor returns and the residual the composer returns lie within
\* +-600 * ln2 / 1200.
C22_DefaultResidualBound ==
    /\ (ret.call = "forward" /\ ret.status = "ok") =>
          Within(ret.lf0_residual, DefaultMaxRatio)
    /\ (ComposeOk /\ result.call = "forward") =>
          /\ result.lf0_residual = ret.lf0_residual
          /\ Within(result.lf0_residual, DefaultMaxRatio)

\* a composed call whose predictor was constructed with other parameters than
\* the composer's, and whose residual reaches the bound at a huge raw value
C22_Witness ==
    /\ ComposeOk
    /\ result.call = "forward"
    /\ pitch_model.ctor.in_lf0_min # composer.in_lf0_min
    /\ pitch_model.in_lf0_min = composer.in_lf0_min
    /\ \E ix \in ResidualPositions :
          /\ RawOf(ix) = RawHuge
          /\ result.lf0_residual.data[ix] = DefaultMaxRatio

====
